---- MODULE Spec2Model ----
(***************************************************************************)
(* Hybrid retrieval engine of the RNE chatbot: the BM25 retriever, the     *)
(* FAISS retriever and the HybridRetriever that fuses their rankings.      *)
(*                                                                         *)
(* Conventions of the model                                                *)
(*  - a text (str) is a sequence of words; <<>> stands for the empty or    *)
(*    whitespace-only string;                                              *)
(*  - a score (Python float) is an exact rational [n, d], d > 0, in lowest *)
(*    terms, so the arithmetic is the real-number arithmetic the floats    *)
(*    approximate;                                                         *)
(*  - a dict with insertion order is a sequence of [key, value] entries;   *)
(*  - None is the string "None" where the other values are strings, and    *)
(*    the record NoneObject where they are objects;                        *)
(*  - a file is Absent, Corrupt or Saved(data);                            *)
(*  - call and ret hold the call made last and what it gave its caller;    *)
(*    in the specifications of the retrievers the caller takes the result  *)
(*    (Return) before the next call.                                       *)
(***************************************************************************)
EXTENDS Integers, Sequences, FiniteSets, TLC

(***************************************************************************)
(* Bounds of the model.                                                    *)
(***************************************************************************)
MaxLen == 2        \* longest sub-index result list fed to the fusion
MaxNormLen == 3    \* longest list given to _normalize_scores on its own
MaxScore == 2      \* largest raw score (in abstract score units)
MaxTopK == 2       \* largest top_k of a call
MaxCorpus == 3     \* most documents handed to one build_index call

VARIABLES
    hybrid,               \* the HybridRetriever object
    call,                 \* the operation called last, with its arguments
    ret,                  \* what that call gave its caller
    bm25_fr, bm25_ar,     \* BM25Retriever: the two BM25Okapi models
    tokenized_corpus_fr, tokenized_corpus_ar,
    documents_fr, documents_ar,
    data_path,            \* BM25Retriever.data_path
    bm25_file,            \* the file at data_path
    argsort_ties,         \* how this build's np.argsort orders equal scores
    index,                \* FAISSRetriever.index
    documents,            \* FAISSRetriever.documents
    index_path,           \* FAISSRetriever.index_path
    embedding_model,      \* FAISSRetriever.embedding_model
    faiss_ties,           \* how this build's faiss orders equal scores
    index_file,           \* the file at index_path
    documents_file,       \* the file at the documents path
    builder,              \* a thread inside build_index or load_index
    searcher              \* a thread inside search

ioVars == <<call, ret>>
threadVars == <<builder, searcher>>
hybridVars == <<hybrid>>
bm25Vars == <<bm25_fr, bm25_ar, tokenized_corpus_fr, tokenized_corpus_ar,
              documents_fr, documents_ar, data_path, bm25_file, argsort_ties>>
faissConfig == <<index_path, embedding_model, faiss_ties>>
faissVars == <<index, documents, index_path, embedding_model, faiss_ties,
               index_file, documents_file>>
vars == <<hybrid, call, ret, bm25_fr, bm25_ar, tokenized_corpus_fr,
          tokenized_corpus_ar, documents_fr, documents_ar, data_path,
          bm25_file, argsort_ties, index, documents, index_path,
          embedding_model, faiss_ties, index_file, documents_file, builder,
          searcher>>

None == "None"
\* None where the other values are objects
NoneObject == [none |-> TRUE]
\* what is at a path: nothing, bytes that do not unpickle, or saved data
Absent == [state |-> "absent"]
Corrupt == [state |-> "corrupt"]
Saved(data) == [state |-> "saved", data |-> data]
\* the configured paths, under the data directory
FAISS_INDEX_PATH == "data/faiss_index.bin"
BM25_DATA_PATH == "data/bm25_data.pkl"
\* the configured sentence-transformer, and another one
EMBEDDING_MODEL == "all-MiniLM-L6-v2"
EmbeddingModels == {EMBEDDING_MODEL, "paraphrase-multilingual-mpnet-base-v2"}

(***************************************************************************)
(* Python values: floats as rationals, list slices, truthiness.            *)
(***************************************************************************)
Abs(x) == IF x < 0 THEN -x ELSE x
Min(a, b) == IF a <= b THEN a ELSE b
Max(a, b) == IF a >= b THEN a ELSE b

RECURSIVE GCD(_, _)
GCD(a, b) == IF b = 0 THEN a ELSE GCD(b, a % b)

Rat(n, d) ==
    LET g == GCD(Abs(n), d) IN [n |-> n \div g, d |-> d \div g]
RatAdd(a, b) == Rat(a.n * b.d + b.n * a.d, a.d * b.d)
RatSub(a, b) == Rat(a.n * b.d - b.n * a.d, a.d * b.d)
RatMul(a, b) == Rat(a.n * b.n, a.d * b.d)
\* a / b for b > 0
RatDiv(a, b) == Rat(a.n * b.d, a.d * b.n)
RatLT(a, b) == a.n * b.d < b.n * a.d
RatLE(a, b) == a.n * b.d <= b.n * a.d
Zero == Rat(0, 1)
One == Rat(1, 1)

\* a slice that keeps one entry too many
SliceToOneMore(s, k) == SubSeq(s, 1, Min(k + 1, Len(s)))

\* s[:k]
SliceTo(s, k) ==
    IF k >= 0 THEN SubSeq(s, 1, Min(k, Len(s)))
    ELSE SubSeq(s, 1, Max(Len(s) + k, 0))

\* s[-k:]  (for k = 0 this is s[0:], the whole list)
SliceLast(s, k) ==
    IF k = 0 THEN s
    ELSE IF k > 0 THEN SubSeq(s, Max(Len(s) - k, 0) + 1, Len(s))
    ELSE SubSeq(s, Min(-k, Len(s)) + 1, Len(s))

\* s[::-1]
Reverse(s) == [i \in 1..Len(s) |-> s[Len(s) + 1 - i]]

(***************************************************************************)
(* Words and texts.                                                        *)
(***************************************************************************)
\* words written in Arabic script (the range ؀-ۿ)
ArabicWords == {"sharika_ar", "fi_ar"}
\* words written in Latin script
LatinWords == {"capital", "Capital", "minimum", "sarl", "delai", "le", "x"}
Words == ArabicWords \cup LatinWords

\* "not text or not text.strip()"
IsBlank(text) == text = None \/ text = <<>>

HasArabic(text) == \E i \in DOMAIN text : text[i] \in ArabicWords

(***************************************************************************)
(* TextProcessor.detect_language.  langdetect is what the langdetect       *)
(* library does with the text: "unavailable" (import failed), "raise", or  *)
(* the language code it returns.                                           *)
(***************************************************************************)
LangdetectOutcomes == {"unavailable", "raise", "fr", "ar", "arb", "en"}

detect_language(text, langdetect) ==
    IF IsBlank(text) THEN "fr"
    ELSE IF langdetect \in {"unavailable", "raise"}
    THEN IF HasArabic(text) THEN "ar" ELSE "fr"
    ELSE IF langdetect = "fr" THEN "fr"
    ELSE IF langdetect \in {"ar", "arb"} THEN "ar"
    ELSE langdetect

(***************************************************************************)
(* Result records of the retrievers.                                       *)
(***************************************************************************)
Result(document, score, rank) ==
    [document |-> document, score |-> score, rank |-> rank]

(***************************************************************************)
(* HybridRetriever._normalize_scores.  The method rewrites the 'score' of  *)
(* the dicts it is given and returns the same list.                        *)
(***************************************************************************)
ScoresOf(results) == {results[i].score : i \in DOMAIN results}
MinOf(scores) == CHOOSE s \in scores : \A t \in scores : RatLE(s, t)
MaxOf(scores) == CHOOSE s \in scores : \A t \in scores : RatLE(t, s)

\* equal scores sent to 0.0 instead of 1.0
normalize_scores_equal_to_zero(results) ==
    IF results = <<>> THEN <<>>
    ELSE LET scores == ScoresOf(results)
             min_score == MinOf(scores)
             max_score == MaxOf(scores)
         IN IF max_score = min_score
            THEN [i \in DOMAIN results |-> [results[i] EXCEPT !.score = Zero]]
            ELSE [i \in DOMAIN results |->
                    [results[i] EXCEPT !.score =
                        RatDiv(RatSub(results[i].score, min_score),
                               RatSub(max_score, min_score))]]

normalize_scores(results) ==
    IF results = <<>> THEN <<>>
    ELSE LET scores == ScoresOf(results)
             min_score == MinOf(scores)
             max_score == MaxOf(scores)
         IN IF max_score = min_score
            THEN [i \in DOMAIN results |-> [results[i] EXCEPT !.score = One]]
            ELSE [i \in DOMAIN results |->
                    [results[i] EXCEPT !.score =
                        RatDiv(RatSub(results[i].score, min_score),
                               RatSub(max_score, min_score))]]

(***************************************************************************)
(* HybridRetriever._combine_results.                                       *)
(***************************************************************************)
DictHas(d, k) == \E i \in DOMAIN d : d[i].key = k
DictIndex(d, k) == CHOOSE i \in DOMAIN d : d[i].key = k
DictGet(d, k) == d[DictIndex(d, k)].value
\* d[k] = v: a new key goes last, an old key keeps its place
DictSet(d, k, v) ==
    IF DictHas(d, k)
    THEN [d EXCEPT ![DictIndex(d, k)] = [key |-> k, value |-> v]]
    ELSE Append(d, [key |-> k, value |-> v])
DictValues(d) == [i \in DOMAIN d |-> d[i].value]

\* "for result in faiss_results: doc_scores[doc_id] = {...}"
RECURSIVE AddFaissScores(_, _, _, _)
AddFaissScores(self, doc_scores, faiss_results, i) ==
    IF i > Len(faiss_results) THEN doc_scores
    ELSE LET result == faiss_results[i]
             doc_id == result.document.id
         IN AddFaissScores(self,
                DictSet(doc_scores, doc_id,
                    [document |-> result.document,
                     faiss_score |-> RatMul(result.score, self.faiss_weight),
                     bm25_score |-> Zero,
                     combined_score |-> Zero]),
                faiss_results, i + 1)

\* a loop that replaces the entry of a document the FAISS list also holds
RECURSIVE AddBm25ScoresReplacing(_, _, _, _)
AddBm25ScoresReplacing(self, doc_scores, bm25_results, i) ==
    IF i > Len(bm25_results) THEN doc_scores
    ELSE LET result == bm25_results[i]
         IN AddBm25ScoresReplacing(self,
                DictSet(doc_scores, result.document.id,
                        [document |-> result.document,
                         faiss_score |-> Zero,
                         bm25_score |-> RatMul(result.score, self.bm25_weight),
                         combined_score |-> Zero]),
                bm25_results, i + 1)

\* "for result in bm25_results: ..."
RECURSIVE AddBm25Scores(_, _, _, _)
AddBm25Scores(self, doc_scores, bm25_results, i) ==
    IF i > Len(bm25_results) THEN doc_scores
    ELSE LET result == bm25_results[i]
             doc_id == result.document.id
             weighted == RatMul(result.score, self.bm25_weight)
         IN AddBm25Scores(self,
                IF DictHas(doc_scores, doc_id)
                THEN DictSet(doc_scores, doc_id,
                        [DictGet(doc_scores, doc_id) EXCEPT !.bm25_score = weighted])
                ELSE DictSet(doc_scores, doc_id,
                        [document |-> result.document,
                         faiss_score |-> Zero,
                         bm25_score |-> weighted,
                         combined_score |-> Zero]),
                bm25_results, i + 1)

\* "data['combined_score'] = data['faiss_score'] + data['bm25_score']"
CombineScores(doc_scores) ==
    [i \in DOMAIN doc_scores |->
        [doc_scores[i] EXCEPT !.value.combined_score =
            RatAdd(doc_scores[i].value.faiss_score, doc_scores[i].value.bm25_score)]]

\* sorted(..., key=combined_score, reverse=True): a stable sort, so entries
\* of equal key keep the order they had
\* an insertion that puts an entry before the entries of equal key
RECURSIVE InsertDescBeforeEqual(_, _)
InsertDescBeforeEqual(s, x) ==
    IF s = <<>> THEN <<x>>
    ELSE IF RatLE(Head(s).combined_score, x.combined_score) THEN <<x>> \o s
    ELSE <<Head(s)>> \o InsertDescBeforeEqual(Tail(s), x)

RECURSIVE InsertDesc(_, _)
InsertDesc(s, x) ==
    IF s = <<>> THEN <<x>>
    ELSE IF RatLT(Head(s).combined_score, x.combined_score) THEN <<x>> \o s
    ELSE <<Head(s)>> \o InsertDesc(Tail(s), x)

RECURSIVE SortedByCombinedDesc(_, _)
SortedByCombinedDesc(s, n) ==
    IF n = 0 THEN <<>> ELSE InsertDesc(SortedByCombinedDesc(s, n - 1), s[n])

FinalResults(sorted_results) ==
    [i \in DOMAIN sorted_results |->
        [document |-> sorted_results[i].document,
         score |-> sorted_results[i].combined_score,
         faiss_score |-> sorted_results[i].faiss_score,
         bm25_score |-> sorted_results[i].bm25_score,
         rank |-> i]]

combine_results(self, faiss_results, bm25_results, top_k) ==
    LET faiss_norm == normalize_scores(faiss_results)
        bm25_norm == normalize_scores(bm25_results)
        doc_scores ==
            CombineScores(
                AddBm25Scores(self,
                    AddFaissScores(self, <<>>, faiss_norm, 1), bm25_norm, 1))
        values == DictValues(doc_scores)
        sorted_results == SortedByCombinedDesc(values, Len(values))
    IN FinalResults(SliceTo(sorted_results, top_k))

(***************************************************************************)
(* HybridRetriever.search.  faiss_out and bm25_out are what the two calls  *)
(* self.faiss_retriever.search(query, internal_top_k, language) and        *)
(* self.bm25_retriever.search(...) do: [kind |-> "ok", results |-> list]   *)
(* or [kind |-> "raise", results |-> <<>>].  Both calls are made with      *)
(* internal_top_k(top_k) and the language ResolveLanguage gives.           *)
(***************************************************************************)
Returned(value) == [kind |-> "return", value |-> value]
\* "return" of a method without a result, and "return True" / "return False"
ReturnedNone == [kind |-> "return", none |-> TRUE]
ReturnedBool(b) == [kind |-> "return", bool |-> b]
Raised == [kind |-> "raise", value |-> <<>>]

Ok(results) == [kind |-> "ok", results |-> results]
Raises == [kind |-> "raise", results |-> <<>>]

\* "if not language: language = self.text_processor.detect_language(query)"
ResolveLanguage(query, language, langdetect) ==
    IF language = None \/ language = "" THEN detect_language(query, langdetect)
    ELSE language

\* the top_k given to the sub-indices is the caller's, not its double,
\* and 10 at least
internal_top_k_undoubled(top_k) == Max(top_k, 10)

internal_top_k(top_k) == Max(top_k * 2, 10)

\* the call made without its try/except: the exception leaves the block
UnguardedSearch(retriever, out) ==
    [escaped |-> retriever /= None /\ out.kind = "raise",
     results |-> IF retriever /= None /\ out.kind = "ok" THEN out.results ELSE <<>>]

\* "results = []; if retriever: try: results = retriever.search(...)
\*  except Exception: logging.error(...)": the list left in results, and
\* whether an exception leaves the block
GuardedSearch(retriever, out) ==
    [escaped |-> FALSE,
     results |-> IF retriever /= None /\ out.kind = "ok" THEN out.results ELSE <<>>]

HybridRetriever_search(self, query, top_k, language, faiss_out, bm25_out) ==
    IF IsBlank(query) THEN Returned(<<>>)
    ELSE LET faiss == GuardedSearch(self.faiss_retriever, faiss_out)
             bm25 == GuardedSearch(self.bm25_retriever, bm25_out)
             faiss_results == faiss.results
             bm25_results == bm25.results
         IN \* the outer "except Exception: return []"
            IF faiss.escaped \/ bm25.escaped THEN Returned(<<>>)
            ELSE IF faiss_results = <<>> /\ bm25_results /= <<>>
            THEN Returned(SliceTo(bm25_results, top_k))
            ELSE IF faiss_results /= <<>> /\ bm25_results = <<>>
            THEN Returned(SliceTo(faiss_results, top_k))
            ELSE IF faiss_results = <<>> /\ bm25_results = <<>>
            THEN Returned(<<>>)
            ELSE Returned(combine_results(self, faiss_results, bm25_results, top_k))

(***************************************************************************)
(* Inputs of the fusion: the result lists the two sub-indices can hand to  *)
(* HybridRetriever.search.  A list is ranked 1..n and ordered by           *)
(* non-increasing raw score, as both sub-index searches return it.  The    *)
(* lists of up to MaxLen entries hold each document id once: the FAISS     *)
(* list names its documents 1, 2, ... in order; the BM25 list ranges over  *)
(* these ids and as many others, the documents the FAISS list does not     *)
(* hold, named MaxLen + 1, MaxLen + 2, ... in the order the list meets     *)
(* them.  Two lists can so share all, some or none of their documents, and *)
(* every pair of such lists is a renaming of one of these.  Raw scores are *)
(* whole score units.  The data loader gives the same id to items of       *)
(* different files, so a list can also hold two documents of one id: such  *)
(* lists are given one by one.                                             *)
(***************************************************************************)
FusionIds == 1..(2 * MaxLen)
FusionDocOf(i, file) == [id |-> i, language |-> "fr", source_file |-> file]
FusionDoc(i) == FusionDocOf(i, "rne_laws.json")
\* another document of the same id
SameIdDoc(i) == FusionDocOf(i, "other.json")

ScoreSeqs(scores, k) ==
    {s \in [1..k -> scores] : \A i \in 1..(k - 1) : s[i] >= s[i + 1]}

InOrderIdSeqs(k) == {[i \in 1..k |-> i]}
DistinctIdSeqs(k) ==
    {d \in [1..k -> FusionIds] :
        /\ \A i, j \in 1..k : i /= j => d[i] /= d[j]
        /\ \A i \in 1..k : d[i] > MaxLen + 1 => \E j \in 1..(i - 1) : d[j] = d[i] - 1}

RankedLists(idseqs, scores, k) ==
    {[i \in 1..k |-> Result(FusionDoc(d[i]), Rat(s[i], 1), i)] :
        d \in idseqs, s \in ScoreSeqs(scores, k)}

\* a ranked list of the documents and raw scores given
ListOf(docs, scores) ==
    [i \in DOMAIN docs |-> Result(docs[i], Rat(scores[i], 1), i)]
\* FAISS lists in which the first document shares its id with the last
RepeatedIdFaissLists ==
    {ListOf(<<FusionDoc(1), SameIdDoc(1)>>, <<2, 1>>),
     ListOf(<<FusionDoc(1), FusionDoc(2), SameIdDoc(1)>>, <<9, 5, 1>>)}
\* BM25 lists of two documents of one id, and a list of three documents
RepeatedIdBm25Lists ==
    {ListOf(<<FusionDoc(1), SameIdDoc(1)>>, <<2, 1>>),
     ListOf(<<FusionDoc(3), SameIdDoc(3)>>, <<2, 1>>),
     ListOf(<<FusionDoc(1), FusionDoc(2), FusionDoc(3)>>, <<6, 5, 2>>)}

FaissLists ==
    UNION {RankedLists(InOrderIdSeqs(k), 1..MaxScore, k) : k \in 0..MaxLen}
        \cup RepeatedIdFaissLists
Bm25Lists ==
    UNION {RankedLists(DistinctIdSeqs(k), 1..MaxScore, k) : k \in 0..MaxLen}
        \cup RepeatedIdBm25Lists

\* lists for _normalize_scores alone: scores of either sign, in any order
NormLists ==
    UNION {{[i \in 1..k |-> Result(FusionDoc(i), Rat(s[i], 1), i)] :
                s \in [1..k -> (0 - MaxScore)..MaxScore]} : k \in 0..MaxNormLen}

NotCalled == [kind |-> "not_called", results |-> <<>>]
FaissOutcomes == {Ok(l) : l \in FaissLists} \cup {Raises}
Bm25Outcomes == {Ok(l) : l \in Bm25Lists} \cup {Raises}

\* weights as configured: FAISS_WEIGHT and BM25_WEIGHT default to 0.5
WeightPairs == {<<Rat(1, 2), Rat(1, 2)>>, <<Rat(1, 1), Rat(1, 2)>>, <<Zero, Rat(1, 1)>>}

\* HybridRetriever.__init__: at least one retriever is given
HybridObjects ==
    {[faiss_retriever |-> f, bm25_retriever |-> b,
      faiss_weight |-> w[1], bm25_weight |-> w[2]] :
        f \in {"faiss", None}, b \in {"bm25", None}, w \in WeightPairs}
    \ {h \in [faiss_retriever : {None}, bm25_retriever : {None},
              faiss_weight : {w[1] : w \in WeightPairs},
              bm25_weight : {w[2] : w \in WeightPairs}] : TRUE}

FusionQueries == {<<>>, <<"capital">>}
FusionLanguages == {"fr"}
FusionLangdetect == {"unavailable"}

NoCall == [op |-> "none"]
NoRet == [kind |-> "none", value |-> <<>>]

(***************************************************************************)
(* The retriever objects that a specification does not exercise.           *)
(***************************************************************************)
Bm25Fresh ==
    /\ bm25_fr = NoneObject /\ bm25_ar = NoneObject
    /\ tokenized_corpus_fr = <<>> /\ tokenized_corpus_ar = <<>>
    /\ documents_fr = <<>> /\ documents_ar = <<>>
    /\ bm25_file = Absent
    /\ argsort_ties = "index_ascending"

FaissFresh ==
    /\ index = NoneObject /\ documents = <<>>
    /\ embedding_model = EMBEDDING_MODEL
    /\ faiss_ties = "index_ascending"
    /\ index_file = Absent /\ documents_file = Absent

HybridUnused == hybrid = None

\* no thread is inside a method of a retriever
Idle == [pc |-> "idle"]
NoThreads == builder = Idle /\ searcher = Idle

(***************************************************************************)
(* Fusion specification: HybridRetriever.search, _combine_results and      *)
(* _normalize_scores applied to every pair of sub-index outcomes.  The     *)
(* three are functions of their arguments and of the weights, and change   *)
(* nothing: a behaviour is one call on one HybridRetriever object.         *)
(***************************************************************************)
InitFusion ==
    /\ hybrid \in HybridObjects
    /\ NoThreads
    /\ call = NoCall /\ ret = NoRet
    /\ Bm25Fresh /\ data_path = None
    /\ FaissFresh /\ index_path = None

HybridSearch ==
    /\ call = NoCall
    /\ \E query \in FusionQueries, top_k \in 0..MaxTopK, language \in FusionLanguages,
          langdetect \in FusionLangdetect,
          faiss_out \in FaissOutcomes \cup {NotCalled},
          bm25_out \in Bm25Outcomes \cup {NotCalled} :
        /\ faiss_out = NotCalled <=> (IsBlank(query) \/ hybrid.faiss_retriever = None)
        /\ bm25_out = NotCalled <=> (IsBlank(query) \/ hybrid.bm25_retriever = None)
        /\ call' = [op |-> "HybridRetriever.search", query |-> query,
                    top_k |-> top_k, language |-> language,
                    faiss_out |-> faiss_out, bm25_out |-> bm25_out,
                    sub_language |-> ResolveLanguage(query, language, langdetect),
                    sub_top_k |-> internal_top_k(top_k)]
        /\ ret' = HybridRetriever_search(hybrid, query, top_k, language,
                                         faiss_out, bm25_out)
        /\ UNCHANGED <<threadVars, hybridVars, bm25Vars, faissVars>>

\* what a list of result dicts holds after _normalize_scores was given it,
\* or a copy() of it: the method assigns to result['score'] of each dict,
\* and list.copy() makes a new list of the same dicts
ListAfterNormalize(results) == normalize_scores(results)

NormalizeScores ==
    /\ call = NoCall
    /\ \E results \in NormLists :
        /\ call' = [op |-> "_normalize_scores", results |-> results,
                    results_after |-> ListAfterNormalize(results)]
        /\ ret' = Returned(normalize_scores(results))
        /\ UNCHANGED <<threadVars, hybridVars, bm25Vars, faissVars>>

\* search calls _combine_results when both sub-indices gave results
CombineResults ==
    /\ call = NoCall
    /\ hybrid.faiss_retriever /= None /\ hybrid.bm25_retriever /= None
    /\ \E faiss_results \in FaissLists \ {<<>>}, bm25_results \in Bm25Lists \ {<<>>},
          top_k \in 0..MaxTopK :
        /\ call' = [op |-> "_combine_results", faiss_results |-> faiss_results,
                    bm25_results |-> bm25_results, top_k |-> top_k,
                    faiss_results_after |-> ListAfterNormalize(faiss_results),
                    bm25_results_after |-> ListAfterNormalize(bm25_results)]
        /\ ret' = Returned(combine_results(hybrid, faiss_results, bm25_results, top_k))
        /\ UNCHANGED <<threadVars, hybridVars, bm25Vars, faissVars>>

NextFusion == HybridSearch \/ NormalizeScores \/ CombineResults

SpecFusion == InitFusion /\ [][NextFusion]_vars

(***************************************************************************)
(* TextProcessor.preprocess: normalize_text, tokenize, remove_stopwords.   *)
(* A call that gives no language (None or '') takes the one                *)
(* detect_language finds in its text; langdetect is what the classifier    *)
(* answers then.  The calls the program makes give the language:           *)
(* build_index passes 'fr' or 'ar', BM25Retriever.search the language it   *)
(* resolved, and preprocess passes its own on.                             *)
(***************************************************************************)
\* the classifier outcome named where the language is given and the
\* classifier is not called
NoDetection == "unavailable"

FrStopwords == {"le"}
ArStopwords == {"fi_ar"}
\* the numbers written in the codes and ids of the documents, and the ids
\* made of them ("12_ar"); the punctuation the two patterns keep
Numbers == {"1", "2", "3", "12"}
IdSuffixes == {"_fr", "_ar"}
IdWords == {n \o x : n \in Numbers, x \in IdSuffixes}
Punctuation == {":"}
\* one-character tokens outside meaningful_short
ShortTokens == {"x", "1", "2", "3"}

Lower(w) == IF w = "Capital" THEN "capital" ELSE w

\* what the pattern for 'ar' leaves of one word: Arabic letters, digits and
\* . , ! ? : ; stay, every other character becomes a space
ArabicKept(w) ==
    IF w \in ArabicWords \cup Numbers \cup Punctuation THEN <<w>>
    ELSE IF w \in IdWords THEN <<CHOOSE n \in Numbers : \E x \in IdSuffixes : w = n \o x>>
    ELSE <<>>

RECURSIVE NormalizedArabic(_)
NormalizedArabic(text) ==
    IF text = <<>> THEN <<>>
    ELSE ArabicKept(Head(text)) \o NormalizedArabic(Tail(text))

\* for 'ar' the characters outside the Arabic range, the digits and the
\* punctuation are blanked; otherwise the text is lower-cased (\w keeps the
\* letters of both scripts, the digits and the underscore)
normalize_text(text, language, langdetect) ==
    IF text = <<>> THEN <<>>
    ELSE LET lang == ResolveLanguage(text, language, langdetect)
         IN IF lang = "ar" THEN NormalizedArabic(text)
            ELSE [i \in DOMAIN text |-> Lower(text[i])]

\* re.findall(r'\b\w+\b', text): the punctuation is left out; then the
\* tokens of one character are dropped (the language, given or detected,
\* only adds Arabic words of two letters to meaningful_short)
tokenize(text, language) ==
    SelectSeq(text, LAMBDA w : w \notin Punctuation /\ w \notin ShortTokens)

\* "language = self.detect_language(' '.join(tokens))" when none is given
remove_stopwords(tokens, language, langdetect) ==
    IF tokens = <<>> THEN <<>>
    ELSE LET lang == ResolveLanguage(tokens, language, langdetect)
         IN IF lang = "fr" THEN SelectSeq(tokens, LAMBDA w : Lower(w) \notin FrStopwords)
            ELSE IF lang = "ar" THEN SelectSeq(tokens, LAMBDA w : w \notin ArStopwords)
            ELSE tokens

\* the language preprocess resolved is the one its three steps are given
preprocess(text, language, langdetect) ==
    IF IsBlank(text) THEN <<>>
    ELSE LET lang == ResolveLanguage(text, language, langdetect)
             normalized_text == normalize_text(text, lang, langdetect)
             tokens == tokenize(normalized_text, lang)
         IN remove_stopwords(tokens, lang, langdetect)

(***************************************************************************)
(* rank_bm25.BM25Okapi, the library behind bm25_fr and bm25_ar.  The model *)
(* object is the corpus it was built from.  Scores are whole score units:  *)
(* the inverse document frequency log((N-n+0.5)/(n+0.5)) is replaced by    *)
(* N - 2n, which has its sign, and a negative one by epsilon (0.25) times  *)
(* the average, as the library does; the term frequency is not saturated.  *)
(* All values are scaled by 4 * |vocabulary|.                              *)
(***************************************************************************)
BM25Okapi(corpus) == [corpus |-> corpus]

WordsOf(doc) == {doc[j] : j \in DOMAIN doc}
Vocabulary(corpus) == UNION {WordsOf(corpus[i]) : i \in DOMAIN corpus}
DocFreq(corpus, w) == Cardinality({i \in DOMAIN corpus : w \in WordsOf(corpus[i])})
TermFreq(doc, w) == Cardinality({j \in DOMAIN doc : doc[j] = w})
RawIdf(corpus, w) == Len(corpus) - 2 * DocFreq(corpus, w)

RECURSIVE IdfSum(_, _)
IdfSum(corpus, ws) ==
    IF ws = {} THEN 0
    ELSE LET w == CHOOSE x \in ws : TRUE
         IN RawIdf(corpus, w) + IdfSum(corpus, ws \ {w})

Idf(corpus, w) ==
    IF w \notin Vocabulary(corpus) THEN 0
    ELSE IF RawIdf(corpus, w) >= 0
    THEN 4 * Cardinality(Vocabulary(corpus)) * RawIdf(corpus, w)
    ELSE IdfSum(corpus, Vocabulary(corpus))

RECURSIVE ScoreOf(_, _, _, _)
ScoreOf(corpus, doc, query, j) ==
    IF j > Len(query) THEN 0
    ELSE Idf(corpus, query[j]) * TermFreq(doc, query[j])
         + ScoreOf(corpus, doc, query, j + 1)

\* bm25.get_scores(tokenized_query): one score per document of the corpus
get_scores(bm25, tokenized_query) ==
    [i \in DOMAIN bm25.corpus |->
        ScoreOf(bm25.corpus, bm25.corpus[i], tokenized_query, 1)]

(***************************************************************************)
(* np.argsort(scores): the indices in ascending order of score.  The       *)
(* default sort kind is not stable: which of two equal scores comes first  *)
(* depends on the numpy build, and is the same on every call of one build. *)
(***************************************************************************)
ArgsortTies == {"index_ascending", "index_descending"}

ArgBefore(scores, ties, i, j) ==
    \/ scores[i] < scores[j]
    \/ /\ scores[i] = scores[j]
       /\ IF ties = "index_ascending" THEN i < j ELSE i > j

argsort(scores, ties) ==
    [k \in DOMAIN scores |->
        CHOOSE i \in DOMAIN scores :
            Cardinality({j \in DOMAIN scores : ArgBefore(scores, ties, j, i)}) = k - 1]

(***************************************************************************)
(* BM25Retriever.search.                                                   *)
(***************************************************************************)
\* "for i, idx in enumerate(top_indices): if idx < len(documents) and
\*  scores[idx] > 0: results.append(...)"
RECURSIVE CollectPositive(_, _, _, _)
CollectPositive(docs, scores, top_indices, i) ==
    IF i > Len(top_indices) THEN <<>>
    ELSE LET idx == top_indices[i]
         IN (IF idx <= Len(docs) /\ scores[idx] > 0
             THEN <<Result(docs[idx], Rat(scores[idx], 1), i)>>
             ELSE <<>>)
            \o CollectPositive(docs, scores, top_indices, i + 1)

\* "np.argsort(scores)[-top_k:][::-1]"
TopIndices(scores, top_k, ties) ==
    Reverse(SliceLast(argsort(scores, ties), top_k))

SearchPartition(bm25, docs, tokenized_query, top_k, ties) ==
    LET scores == get_scores(bm25, tokenized_query)
    IN CollectPositive(docs, scores, TopIndices(scores, top_k, ties), 1)

\* bm_fr, docs_fr, bm_ar, docs_ar: self.bm25_fr, self.documents_fr, ...
BM25Retriever_search(bm_fr, docs_fr, bm_ar, docs_ar, query, top_k, language, langdetect, ties) ==
    IF IsBlank(query) THEN Returned(<<>>)
    ELSE LET lang == ResolveLanguage(query, language, langdetect)
             tokenized_query == preprocess(query, lang, langdetect)
         IN IF tokenized_query = <<>> THEN Returned(<<>>)
            ELSE IF lang = "fr" /\ bm_fr /= NoneObject
            THEN Returned(SearchPartition(bm_fr, docs_fr, tokenized_query, top_k, ties))
            ELSE IF lang = "ar" /\ bm_ar /= NoneObject
            THEN Returned(SearchPartition(bm_ar, docs_ar, tokenized_query, top_k, ties))
            ELSE Returned(<<>>)

(***************************************************************************)
(* BM25Retriever.build_index, _save_data, load_index.                      *)
(***************************************************************************)
RECURSIVE Ascending(_)
Ascending(S) ==
    IF S = {} THEN <<>>
    ELSE LET m == CHOOSE x \in S : \A y \in S : x <= y
         IN <<m>> \o Ascending(S \ {m})

Pick(s, places) == [k \in DOMAIN places |-> s[places[k]]]

\* the places of the documents of one language
LanguagePlaces(docs, language) ==
    Ascending({i \in DOMAIN docs : docs[i].language = language})

\* the places of the non-empty token lists
NonEmptyPlaces(tokens) == Ascending({i \in DOMAIN tokens : tokens[i] /= <<>>})

\* filtered_docs_fr / filtered_docs_ar
FilteredDocs(tokens, docs) == Pick(docs, NonEmptyPlaces(tokens))
\* filtered_fr / filtered_ar
FilteredTokens(tokens) == Pick(tokens, NonEmptyPlaces(tokens))

BuildPartition(texts, docs, language) ==
    LET places == LanguagePlaces(docs, language)
        texts_l == Pick(texts, places)
        docs_l == Pick(docs, places)
        tokens == [k \in DOMAIN texts_l |-> preprocess(texts_l[k], language, NoDetection)]
        filtered == FilteredTokens(tokens)
    IN [tokenized_corpus |-> filtered,
        documents |-> FilteredDocs(tokens, docs_l),
        bm25 |-> IF filtered /= <<>> THEN BM25Okapi(filtered) ELSE NoneObject]

\* the dict _save_data pickles
SaveData ==
    [tokenized_corpus_fr |-> tokenized_corpus_fr,
     tokenized_corpus_ar |-> tokenized_corpus_ar,
     documents_fr |-> documents_fr,
     documents_ar |-> documents_ar]

\* what writing the file does: "ok", "no_write" (makedirs or open fails, the
\* file is as before) or "partial" (the dump fails, the file is cut short)
WriteOutcomes == {"ok", "no_write", "partial"}
Written(file, data, outcome) ==
    IF outcome = "ok" THEN Saved(data)
    ELSE IF outcome = "partial" THEN Corrupt
    ELSE file

(***************************************************************************)
(* Documents given to build_index.  The text indexed for a document is its *)
(* content; the pool holds two French documents that tie on "capital", a   *)
(* document of stopwords only, one with no text, an Arabic one and one     *)
(* with no supported language.                                             *)
(***************************************************************************)
Doc(id, language, content) == [id |-> id, language |-> language, content |-> content]
DocPool ==
    << Doc(1, "fr", <<"capital", "minimum">>),
       Doc(2, "fr", <<"capital", "sarl">>),
       Doc(3, "fr", <<"delai">>),
       Doc(4, "ar", <<"sharika_ar", "fi_ar">>),
       Doc(5, "fr", <<"le", "x">>),
       Doc(6, "fr", <<>>),
       Doc(7, None, <<"capital">>) >>

\* the corpora: the documents of the pool at up to MaxCorpus places
Corpora ==
    {Pick(DocPool, Ascending(S)) :
        S \in {T \in SUBSET DOMAIN DocPool : Cardinality(T) <= MaxCorpus}}
\* the texts a caller of build_index passes with these documents: the
\* content of each
TextsOf(docs) == [i \in DOMAIN docs |-> docs[i].content]
\* the texts of the documents, or one text short
TextLists(docs) ==
    {TextsOf(docs)} \cup
    (IF docs = <<>> THEN {} ELSE {SubSeq(TextsOf(docs), 1, Len(docs) - 1)})
\* the text lists given to BM25Retriever.build_index: one text short with
\* a French document followed by an Arabic one (the text read beyond the
\* end is the Arabic document's) and with a French document followed by
\* one of no supported language (whose text is not read)
ShortTextCorpora == {Pick(DocPool, <<1, 4>>), Pick(DocPool, <<1, 7>>)}
Bm25TextLists(docs) ==
    IF docs \in ShortTextCorpora THEN TextLists(docs) ELSE {TextsOf(docs)}

Bm25Queries == {<<>>, <<"Capital">>, <<"capital", "delai">>, <<"le">>, <<"sharika_ar">>}
Languages == {None, "fr", "ar"}

InitBM25 ==
    /\ HybridUnused
    /\ NoThreads
    /\ call = NoCall /\ ret = NoRet
    /\ bm25_fr = NoneObject /\ bm25_ar = NoneObject
    /\ tokenized_corpus_fr = <<>> /\ tokenized_corpus_ar = <<>>
    /\ documents_fr = <<>> /\ documents_ar = <<>>
    /\ data_path \in {None, BM25_DATA_PATH}
    /\ bm25_file = Absent
    /\ argsort_ties \in ArgsortTies
    /\ FaissFresh /\ index_path = None

\* the caller takes the result; the next call can be made
Return ==
    /\ call /= NoCall
    /\ call' = NoCall /\ ret' = NoRet
    /\ UNCHANGED <<threadVars, hybridVars, bm25Vars, faissVars>>

Bm25State(bm_fr, bm_ar, tok_fr, tok_ar, docs_fr, docs_ar) ==
    [bm25_fr |-> bm_fr, bm25_ar |-> bm_ar,
     tokenized_corpus_fr |-> tok_fr, tokenized_corpus_ar |-> tok_ar,
     documents_fr |-> docs_fr, documents_ar |-> docs_ar]
Bm25New == Bm25State(NoneObject, NoneObject, <<>>, <<>>, <<>>, <<>>)

\* the places of the separation loop at which texts[i] is read beyond the
\* end of texts: only a document of language fr or ar has its text read
RaisingPlaces(texts, docs) ==
    {i \in DOMAIN docs : docs[i].language \in {"fr", "ar"} /\ i > Len(texts)}
\* the documents of one language the loop appended before place stop
PartitionBefore(docs, language, stop) ==
    LET before == SubSeq(docs, 1, stop - 1)
    IN Pick(before, LanguagePlaces(before, language))

\* BM25Retriever.build_index(texts, documents) on a retriever in state
\* self: the retriever it leaves and how it ends.  With fewer texts than
\* documents the separation loop raises IndexError after the two document
\* lists were emptied and refilled up to that place; the tokenized
\* corpora and the models are those of before.
BM25_build_index(self, texts, docs) ==
    IF RaisingPlaces(texts, docs) /= {}
    THEN LET stop == CHOOSE i \in RaisingPlaces(texts, docs) :
                         \A j \in RaisingPlaces(texts, docs) : i <= j
         IN [self |-> [self EXCEPT !.documents_fr = PartitionBefore(docs, "fr", stop),
                                   !.documents_ar = PartitionBefore(docs, "ar", stop)],
             ret |-> Raised]
    ELSE LET fr == BuildPartition(texts, docs, "fr")
             ar == BuildPartition(texts, docs, "ar")
         IN [self |-> Bm25State(fr.bm25, ar.bm25, fr.tokenized_corpus,
                                ar.tokenized_corpus, fr.documents, ar.documents),
             ret |-> ReturnedNone]

BM25BuildIndex ==
    /\ call = NoCall
    /\ \E docs \in Corpora, outcome \in WriteOutcomes :
        \E texts \in Bm25TextLists(docs) :
            LET self == Bm25State(bm25_fr, bm25_ar, tokenized_corpus_fr,
                                  tokenized_corpus_ar, documents_fr, documents_ar)
                built == BM25_build_index(self, texts, docs)
            IN /\ (data_path = None \/ built.ret = Raised) => outcome = "no_write"
               /\ tokenized_corpus_fr' = built.self.tokenized_corpus_fr
               /\ tokenized_corpus_ar' = built.self.tokenized_corpus_ar
               /\ documents_fr' = built.self.documents_fr
               /\ documents_ar' = built.self.documents_ar
               /\ bm25_fr' = built.self.bm25_fr
               /\ bm25_ar' = built.self.bm25_ar
               /\ bm25_file' = Written(bm25_file, SaveData', outcome)
               /\ call' = [op |-> "BM25Retriever.build_index", texts |-> texts,
                           documents |-> docs]
               /\ ret' = built.ret
    /\ UNCHANGED <<threadVars, hybridVars, faissVars, data_path, argsort_ties>>

BM25SaveData ==
    /\ call = NoCall
    /\ \E outcome \in WriteOutcomes :
        /\ data_path = None => outcome = "no_write"
        /\ bm25_file' = Written(bm25_file, SaveData, outcome)
    /\ call' = [op |-> "BM25Retriever._save_data"]
    /\ ret' = ReturnedNone
    /\ UNCHANGED <<threadVars, hybridVars, faissVars, bm25_fr, bm25_ar, tokenized_corpus_fr,
                   tokenized_corpus_ar, documents_fr, documents_ar, data_path,
                   argsort_ties>>

BM25LoadIndex ==
    /\ call = NoCall
    /\ call' = [op |-> "BM25Retriever.load_index"]
    /\ IF data_path = None \/ bm25_file.state /= "saved"
       THEN /\ ret' = ReturnedBool(FALSE)
            /\ UNCHANGED <<bm25_fr, bm25_ar, tokenized_corpus_fr, tokenized_corpus_ar,
                           documents_fr, documents_ar>>
       ELSE /\ tokenized_corpus_fr' = bm25_file.data.tokenized_corpus_fr
            /\ tokenized_corpus_ar' = bm25_file.data.tokenized_corpus_ar
            /\ documents_fr' = bm25_file.data.documents_fr
            /\ documents_ar' = bm25_file.data.documents_ar
            /\ bm25_fr' = IF bm25_file.data.tokenized_corpus_fr /= <<>>
                          THEN BM25Okapi(bm25_file.data.tokenized_corpus_fr) ELSE NoneObject
            /\ bm25_ar' = IF bm25_file.data.tokenized_corpus_ar /= <<>>
                          THEN BM25Okapi(bm25_file.data.tokenized_corpus_ar) ELSE NoneObject
            /\ ret' = ReturnedBool(TRUE)
    /\ UNCHANGED <<threadVars, hybridVars, faissVars, data_path, bm25_file, argsort_ties>>

\* BM25Retriever(data_path) constructed anew (a restart): the file stays
BM25New ==
    /\ call = NoCall
    /\ bm25_fr' = NoneObject /\ bm25_ar' = NoneObject
    /\ tokenized_corpus_fr' = <<>> /\ tokenized_corpus_ar' = <<>>
    /\ documents_fr' = <<>> /\ documents_ar' = <<>>
    /\ call' = [op |-> "BM25Retriever.__init__"]
    /\ ret' = ReturnedNone
    /\ UNCHANGED <<threadVars, hybridVars, faissVars, data_path, bm25_file, argsort_ties>>

\* what BM25Retriever.search calls before it scores
BM25Invoked(query, language) ==
    IF IsBlank(query) THEN {}
    ELSE (IF language = None \/ language = "" THEN {"detect_language"} ELSE {})
         \cup {"preprocess"}

BM25Search ==
    /\ call = NoCall
    /\ \E query \in Bm25Queries, top_k \in 0..MaxTopK, language \in Languages,
          langdetect \in LangdetectOutcomes :
        /\ language /= None => langdetect = "unavailable"
        /\ call' = [op |-> "BM25Retriever.search", query |-> query,
                    top_k |-> top_k, language |-> language,
                    sub_language |-> ResolveLanguage(query, language, langdetect),
                    invoked |-> BM25Invoked(query, language)]
        /\ ret' = BM25Retriever_search(bm25_fr, documents_fr, bm25_ar, documents_ar,
                                       query, top_k, language, langdetect,
                                       argsort_ties)
    /\ UNCHANGED <<threadVars, hybridVars, bm25Vars, faissVars>>

NextBM25 ==
    \/ BM25BuildIndex \/ BM25SaveData \/ BM25LoadIndex \/ BM25New
    \/ BM25Search \/ Return

SpecBM25 == InitBM25 /\ [][NextBM25]_vars

(***************************************************************************)
(* FAISSRetriever.  The encoder is a sentence-transformer, a function     *)
(* from texts to vectors.  Its vector for a text holds twice the count of  *)
(* each word and one more component, the sum s of the squared counts less  *)
(* one: the length of the vector is then the whole number s + 1            *)
(* (4s + (s - 1)^2 = (s + 1)^2), normalize_L2 divides by it exactly, and   *)
(* the inner product of two normalised vectors, the cosine, is a fraction. *)
(* A text of none of the words has the zero vector.  The configured model  *)
(* has one component for each word; the other model has one for each word  *)
(* without its case, so its vectors have another dimension.                *)
(***************************************************************************)
Bias == "bias"
Components(model) ==
    (IF model = EMBEDDING_MODEL THEN Words ELSE {Lower(w) : w \in Words}) \cup {Bias}

Sum(f) == LET RECURSIVE Total(_)
              Total(S) == IF S = {} THEN 0
                          ELSE LET x == CHOOSE y \in S : TRUE
                               IN f[x] + Total(S \ {x})
          IN Total(DOMAIN f)

WordCounts(model, text) ==
    [c \in Components(model) \ {Bias} |->
        Sum([i \in DOMAIN text |->
                IF (IF model = EMBEDDING_MODEL THEN text[i] ELSE Lower(text[i])) = c
                THEN 1 ELSE 0])]

Embed(model, text) ==
    LET counts == WordCounts(model, text)
        s == Sum([c \in DOMAIN counts |-> counts[c] * counts[c]])
    IN [c \in Components(model) |->
            IF c /= Bias THEN 2 * counts[c]
            ELSE IF s = 0 THEN 0 ELSE s - 1]

\* the length of a vector of whole components whose length is whole
Norm(v) ==
    LET s == Sum([c \in DOMAIN v |-> v[c] * v[c]])
    IN CHOOSE n \in 0..s : n * n = s

\* every component divided by the length; the zero vector stays
normalize_L2(v) ==
    LET n == Norm(v)
    IN [c \in DOMAIN v |-> IF n = 0 THEN Zero ELSE Rat(v[c], n)]

\* _create_embeddings: the rows of the array, or None when the encoder raises
EncoderOutcomes == {"ok", "raise"}
create_embeddings(model, texts, encoder) ==
    IF encoder = "raise" THEN NoneObject
    ELSE [rows |-> [i \in DOMAIN texts |-> Embed(model, texts[i])]]

\* faiss.IndexFlatIP(dimension) after index.add(embeddings)
IndexFlatIP(rows) == [rows |-> rows]
ntotal(idx) == Len(idx.rows)

\* the places of the texts with "text and text.strip()"
NonBlankPlaces(texts) == Ascending({i \in DOMAIN texts : ~IsBlank(texts[i])})

\* build_index up to the save: the index and the documents it leaves, and
\* how it ended
\* a build that adds the new documents to those the retriever holds
FAISS_build_index_appending(self_index, self_documents, model, texts, docs, encoder) ==
    [index |-> IF self_index = NoneObject THEN IndexFlatIP(<<>>) ELSE self_index,
     documents |-> self_documents \o docs, end |-> "built"]

FAISS_build_index(self_index, self_documents, model, texts, docs, encoder) ==
    IF texts = <<>> \/ docs = <<>>
    THEN [index |-> self_index, documents |-> self_documents, end |-> "nothing_to_index"]
    ELSE IF Len(texts) /= Len(docs)
    THEN [index |-> self_index, documents |-> self_documents, end |-> "raise"]
    ELSE LET filtered_texts == Pick(texts, NonBlankPlaces(texts))
             filtered_docs == Pick(docs, NonBlankPlaces(texts))
             embeddings == create_embeddings(model, filtered_texts, encoder)
         IN IF filtered_texts = <<>>
            THEN [index |-> self_index, documents |-> docs, end |-> "no_valid_texts"]
            ELSE IF embeddings = NoneObject
            THEN [index |-> self_index, documents |-> filtered_docs,
                  end |-> "no_embeddings"]
            ELSE [index |-> IndexFlatIP([i \in DOMAIN embeddings.rows |->
                                            normalize_L2(embeddings.rows[i])]),
                  documents |-> filtered_docs, end |-> "built"]

\* _save_index writes the index file, then the documents file; an error is
\* logged and the files stay as the writes so far left them
FaissWriteOutcomes == {"ok", "no_write", "index_partial", "index_only", "docs_partial"}
\* the index file also carries, for the properties, the retriever that
\* wrote it: its model, its index and its documents at that moment
Writer(model, idx, docs) == [embedding_model |-> model, index |-> idx, documents |-> docs]
SavedBy(data, writer) == [state |-> "saved", data |-> data, writer |-> writer]
WrittenIndex(file, data, writer, outcome) ==
    IF outcome = "no_write" THEN file
    ELSE IF outcome = "index_partial" THEN Corrupt
    ELSE SavedBy(data, writer)
WrittenDocuments(file, data, outcome) ==
    IF outcome = "ok" THEN Saved(data)
    ELSE IF outcome = "docs_partial" THEN Corrupt
    ELSE file

(***************************************************************************)
(* FAISSRetriever.search.  The score of a row is its inner product with    *)
(* the normalised query, the cosine.  Which of two rows of equal score     *)
(* faiss gives first depends on the build.                                 *)
(***************************************************************************)
RECURSIVE RatSum(_, _)
RatSum(f, S) ==
    IF S = {} THEN Zero
    ELSE LET x == CHOOSE y \in S : TRUE IN RatAdd(f[x], RatSum(f, S \ {x}))

\* the inner product of two normalised vectors
Dot(u, v) == RatSum([c \in DOMAIN u |-> RatMul(u[c], v[c])], DOMAIN u)

FaissBefore(scores, ties, i, j) ==
    \/ RatLT(scores[j], scores[i])
    \/ /\ scores[i] = scores[j]
       /\ IF ties = "index_ascending" THEN i < j ELSE i > j

\* an index search that gives every row, whatever k
IndexSearchAll(idx, q, k, ties) ==
    LET scores == [i \in DOMAIN idx.rows |-> Dot(q, idx.rows[i])]
    IN [scores |-> scores,
        indices |-> [n \in DOMAIN scores |->
                        CHOOSE i \in DOMAIN scores :
                            Cardinality({j \in DOMAIN scores :
                                            FaissBefore(scores, ties, j, i)}) = n - 1]]

\* index.search(query_embedding, k): the places of the k best rows, best
\* first, and the scores of all rows
IndexSearch(idx, q, k, ties) ==
    LET scores == [i \in DOMAIN idx.rows |-> Dot(q, idx.rows[i])]
        order == [n \in DOMAIN scores |->
                    CHOOSE i \in DOMAIN scores :
                        Cardinality({j \in DOMAIN scores :
                                        FaissBefore(scores, ties, j, i)}) = n - 1]
    IN [scores |-> scores, indices |-> SliceTo(order, k)]

\* the loop without its language test
RECURSIVE CollectUnfiltered(_, _, _, _, _, _, _)
CollectUnfiltered(docs, scores, indices, n, language, top_k, results) ==
    IF n > Len(indices) THEN results
    ELSE LET idx == indices[n]
         IN IF idx > Len(docs)
            THEN CollectUnfiltered(docs, scores, indices, n + 1, language, top_k, results)
            ELSE LET more == Append(results,
                                    Result(docs[idx], scores[idx], Len(results) + 1))
                 IN IF Len(more) >= top_k THEN more
                    ELSE CollectUnfiltered(docs, scores, indices, n + 1, language, top_k,
                                           more)

\* the loop over zip(scores[0], indices[0])
RECURSIVE CollectFiltered(_, _, _, _, _, _, _)
CollectFiltered(docs, scores, indices, n, language, top_k, results) ==
    IF n > Len(indices) THEN results
    ELSE LET idx == indices[n]
         IN IF idx > Len(docs)
            THEN CollectFiltered(docs, scores, indices, n + 1, language, top_k, results)
            ELSE IF language \notin {None, ""} /\ docs[idx].language /= language
            THEN CollectFiltered(docs, scores, indices, n + 1, language, top_k, results)
            ELSE LET more == Append(results,
                                    Result(docs[idx], scores[idx], Len(results) + 1))
                 IN IF Len(more) >= top_k THEN more
                    ELSE CollectFiltered(docs, scores, indices, n + 1, language, top_k,
                                         more)

\* a search that fails when no index was built or loaded
FAISSRetriever_search_without_index(idx, docs, model, query, top_k, language, encoder, ties) ==
    IF idx = NoneObject THEN Raised ELSE Returned(<<>>)

FAISSRetriever_search(idx, docs, model, query, top_k, language, encoder, ties) ==
    IF idx = NoneObject THEN Returned(<<>>)
    ELSE IF IsBlank(query) THEN Returned(<<>>)
    ELSE LET query_embedding == create_embeddings(model, <<query>>, encoder)
             search_k == IF language \notin {None, ""} THEN top_k * 3 ELSE top_k
             k == Min(search_k, ntotal(idx))
         IN IF query_embedding = NoneObject THEN Returned(<<>>)
            \* a query of another dimension, or k = 0: faiss raises, or
            \* gives no row; search returns [] in both cases
            ELSE IF k = 0 \/ \E i \in DOMAIN idx.rows :
                                DOMAIN idx.rows[i] /= Components(model)
            THEN Returned(<<>>)
            ELSE LET q == normalize_L2(query_embedding.rows[1])
                     found == IndexSearch(idx, q, k, ties)
                 IN Returned(CollectFiltered(docs, found.scores, found.indices, 1,
                                             language, top_k, <<>>))

\* the queries given to FAISSRetriever.search
FaissQueries == {<<>>, <<"capital">>, <<"sharika_ar">>}

\* the documents given to FAISSRetriever.build_index
FaissPoolPlaces == {4, 6, 7}
FaissCorpora == {c \in Corpora : \A i \in DOMAIN c : c[i].id \in FaissPoolPlaces}

InitFaiss ==
    /\ HybridUnused
    /\ NoThreads
    /\ call = NoCall /\ ret = NoRet
    /\ Bm25Fresh /\ data_path = None
    /\ index = NoneObject /\ documents = <<>>
    /\ index_path \in {None, FAISS_INDEX_PATH}
    /\ embedding_model = EMBEDDING_MODEL
    /\ faiss_ties \in ArgsortTies
    /\ index_file = Absent /\ documents_file = Absent

FaissBuildIndex ==
    /\ call = NoCall
    /\ \E docs \in FaissCorpora, encoder \in EncoderOutcomes,
          outcome \in FaissWriteOutcomes :
        \E texts \in TextLists(docs) :
            LET b == FAISS_build_index(index, documents, embedding_model, texts, docs,
                                       encoder)
                saved == b.end = "built" /\ index_path /= None
            IN /\ ~saved => outcome = "no_write"
               /\ b.end \in {"nothing_to_index", "raise", "no_valid_texts"}
                      => encoder = "ok"
               /\ index' = b.index
               /\ documents' = b.documents
               /\ index_file' = WrittenIndex(index_file, b.index,
                                              Writer(embedding_model, b.index, b.documents),
                                              outcome)
               /\ documents_file' = WrittenDocuments(documents_file, b.documents, outcome)
               /\ call' = [op |-> "FAISSRetriever.build_index", texts |-> texts,
                           documents |-> docs, end |-> b.end, encoder |-> encoder]
               /\ ret' = IF b.end = "raise" THEN Raised ELSE ReturnedNone
    /\ UNCHANGED <<threadVars, hybridVars, bm25Vars, faissConfig>>

\* load_index: the index and the documents it leaves, and what it returns
FAISS_load_index(path, ifile, dfile, self_index, self_documents) ==
    IF path = None \/ ifile.state = "absent"
    THEN [index |-> self_index, documents |-> self_documents, ret |-> ReturnedBool(FALSE)]
    ELSE IF ifile.state = "corrupt"
    THEN [index |-> self_index, documents |-> self_documents, ret |-> ReturnedBool(FALSE)]
    ELSE IF dfile.state = "saved"
    THEN [index |-> ifile.data, documents |-> dfile.data, ret |-> ReturnedBool(TRUE)]
    ELSE IF dfile.state = "absent"
    THEN [index |-> ifile.data, documents |-> <<>>, ret |-> ReturnedBool(TRUE)]
    ELSE [index |-> ifile.data, documents |-> self_documents, ret |-> ReturnedBool(FALSE)]

FaissLoadIndex ==
    /\ call = NoCall
    /\ call' = [op |-> "FAISSRetriever.load_index", snapshot |-> index_file.state]
    /\ LET l == FAISS_load_index(index_path, index_file, documents_file, index, documents)
       IN index' = l.index /\ documents' = l.documents /\ ret' = l.ret
    /\ UNCHANGED <<threadVars, hybridVars, bm25Vars, faissConfig, index_file, documents_file>>

\* FAISSRetriever(index_path, embedding_model) constructed anew (a
\* restart): the files stay
FaissNew ==
    /\ call = NoCall
    /\ index' = NoneObject /\ documents' = <<>>
    /\ embedding_model' \in EmbeddingModels
    /\ call' = [op |-> "FAISSRetriever.__init__"]
    /\ ret' = ReturnedNone
    /\ UNCHANGED <<threadVars, hybridVars, bm25Vars, index_path, faiss_ties, index_file,
                   documents_file>>

\* what FAISSRetriever.search calls: the encoder, and the index when the
\* encoder gave a vector
FaissInvoked(idx, query) ==
    IF idx = NoneObject \/ IsBlank(query) THEN {}
    ELSE {"create_embeddings"}

\* FAISSRetriever.search on the retriever as it is
FaissSearch ==
    /\ call = NoCall
    /\ \E query \in FaissQueries, top_k \in 0..MaxTopK, language \in Languages,
          encoder \in EncoderOutcomes :
        /\ (index = NoneObject \/ IsBlank(query)) => encoder = "ok"
        /\ call' = [op |-> "FAISSRetriever.search", query |-> query, top_k |-> top_k,
                    language |-> language, encoder |-> encoder,
                    invoked |-> FaissInvoked(index, query)]
        /\ ret' = FAISSRetriever_search(index, documents, embedding_model, query, top_k,
                                        language, encoder, faiss_ties)
    /\ UNCHANGED <<threadVars, hybridVars, bm25Vars, faissVars>>

\* the documents file is removed from the directory
RemoveDocumentsFile ==
    /\ call = NoCall
    /\ documents_file /= Absent
    /\ documents_file' = Absent
    /\ UNCHANGED <<ioVars, threadVars, hybridVars, bm25Vars, index, documents, faissConfig,
                   index_file>>

NextFaiss ==
    \/ FaissBuildIndex \/ FaissLoadIndex \/ FaissNew \/ FaissSearch
    \/ RemoveDocumentsFile \/ Return

SpecFaiss == InitFaiss /\ [][NextFaiss]_vars

(***************************************************************************)
(* The application: initialize_components at import, then searches.  The   *)
(* files at the two paths are those an earlier run left: none, a file cut  *)
(* short, or the snapshot of an earlier corpus.  The data loader gives     *)
(* documents of language fr or ar with a non-empty text.                   *)
(***************************************************************************)
\* the dict _save_data pickles for a retriever in state self
SaveDataOf(self) ==
    [tokenized_corpus_fr |-> self.tokenized_corpus_fr,
     tokenized_corpus_ar |-> self.tokenized_corpus_ar,
     documents_fr |-> self.documents_fr,
     documents_ar |-> self.documents_ar]

\* BM25Retriever.load_index: the retriever it leaves and what it returns
BM25_load_index(path, file, self) ==
    IF path = None \/ file.state /= "saved"
    THEN [self |-> self, ret |-> ReturnedBool(FALSE)]
    ELSE [self |-> Bm25State(
                     IF file.data.tokenized_corpus_fr /= <<>>
                     THEN BM25Okapi(file.data.tokenized_corpus_fr) ELSE NoneObject,
                     IF file.data.tokenized_corpus_ar /= <<>>
                     THEN BM25Okapi(file.data.tokenized_corpus_ar) ELSE NoneObject,
                     file.data.tokenized_corpus_fr, file.data.tokenized_corpus_ar,
                     file.data.documents_fr, file.data.documents_ar),
          ret |-> ReturnedBool(TRUE)]

\* a document as process_data makes it: the id is a string, the content
\* the "key: value" lines of the item's content, the label first
ProcessedDoc(id, code, language, procedure, content) ==
    [id |-> id, code |-> code, language |-> language, type_entreprise |-> "",
     genre_entreprise |-> "", procedure |-> procedure, content |-> content]
LoaderPool ==
    << ProcessedDoc("1_fr", "1", "fr", "", <<"texte", ":", "capital", "minimum">>),
       ProcessedDoc("2_fr", "2", "fr", "sarl", <<"texte", ":", "capital">>),
       ProcessedDoc("3_fr", "3", "fr", "", <<"texte", ":", "delai">>),
       ProcessedDoc("12_ar", "12", "ar", "", <<"texte", ":", "sharika_ar", "fi_ar">>),
       ProcessedDoc("", None, "fr", "", <<>>) >>

\* "if doc.get(field): text_parts.append(doc[field])"
TextPart(value) == IF value \in {None, ""} THEN <<>> ELSE <<value>>
\* ' '.join(text_parts): code, id, the three RNE fields, content
JoinedText(doc) ==
    TextPart(doc.code) \o TextPart(doc.id) \o TextPart(doc.type_entreprise)
    \o TextPart(doc.genre_entreprise) \o TextPart(doc.procedure) \o doc.content
\* extract_text_for_indexing: the texts and the documents that have one
extract_text_for_indexing(processed_data) ==
    LET kept == Ascending({i \in DOMAIN processed_data :
                              JoinedText(processed_data[i]) /= <<>>})
    IN [texts |-> [k \in DOMAIN kept |-> JoinedText(processed_data[kept[k]])],
        docs |-> Pick(processed_data, kept)]
LoaderTexts(docs) == extract_text_for_indexing(docs).texts

\* the lists process_data gave the earlier run, and those it gives now
SnapshotCorpora == {Pick(LoaderPool, <<3>>), Pick(LoaderPool, <<2, 4>>)}
LoaderCorpora ==
    {<<>>, Pick(LoaderPool, <<4>>), Pick(LoaderPool, <<5, 1, 4>>),
     Pick(LoaderPool, <<1, 2, 3>>)}
\* what load_data finds when initialize_components needs the documents
LoaderOutcomes == {"loaded", "no_json_file"}

\* the files FAISSRetriever.build_index wrote for a list of the loader:
\* none when it returned before _save_index (nothing to index)
FaissSnapshot(processed_data) ==
    LET e == extract_text_for_indexing(processed_data)
        b == FAISS_build_index(NoneObject, <<>>, EMBEDDING_MODEL, e.texts, e.docs, "ok")
    IN IF b.end = "built"
       THEN [index_file |-> SavedBy(b.index, Writer(EMBEDDING_MODEL, b.index, b.documents)),
             documents_file |-> Saved(b.documents)]
       ELSE [index_file |-> Absent, documents_file |-> Absent]
\* the dict _save_data wrote for a list of the loader
Bm25Snapshot(processed_data) ==
    LET e == extract_text_for_indexing(processed_data)
    IN Saved(SaveDataOf(BM25_build_index(Bm25New, e.texts, e.docs).self))

\* the dict initialize_components returns
ComponentNames ==
    {"data_loader", "text_processor", "language_detector", "faiss_retriever",
     "bm25_retriever", "hybrid_retriever", "openai_client"}
ReturnedComponents == [kind |-> "return", components |-> ComponentNames]

\* the module before initialize_components ran
NotInitialized == hybrid = NoneObject

InitStartup ==
    /\ NotInitialized
    /\ NoThreads
    /\ call = NoCall /\ ret = NoRet
    /\ bm25_fr = NoneObject /\ bm25_ar = NoneObject
    /\ tokenized_corpus_fr = <<>> /\ tokenized_corpus_ar = <<>>
    /\ documents_fr = <<>> /\ documents_ar = <<>>
    /\ data_path = BM25_DATA_PATH
    /\ argsort_ties \in ArgsortTies
    /\ index = NoneObject /\ documents = <<>>
    /\ index_path = FAISS_INDEX_PATH
    /\ embedding_model = EMBEDDING_MODEL
    /\ faiss_ties \in ArgsortTies
    /\ \E old \in SnapshotCorpora :
        /\ bm25_file \in {Absent, Corrupt, Bm25Snapshot(old)}
        /\ index_file \in {Absent, Corrupt, FaissSnapshot(old).index_file}
        /\ documents_file \in {Absent, FaissSnapshot(old).documents_file}
        /\ index_file = Absent => documents_file = Absent

\* initialize_components: construct the retrievers, load or build the
\* indices, construct the HybridRetriever
InitializeComponents ==
    /\ call = NoCall
    /\ NotInitialized
    /\ \E processed \in LoaderCorpora, loader \in LoaderOutcomes,
          encoder \in EncoderOutcomes, faiss_write \in FaissWriteOutcomes,
          bm25_write \in WriteOutcomes :
        LET fl == FAISS_load_index(index_path, index_file, documents_file, NoneObject, <<>>)
            bl == BM25_load_index(data_path, bm25_file, Bm25New)
            faiss_loaded == fl.ret = ReturnedBool(TRUE)
            bm25_loaded == bl.ret = ReturnedBool(TRUE)
            e == extract_text_for_indexing(processed)
            fb == IF faiss_loaded
                  THEN [index |-> fl.index, documents |-> fl.documents, end |-> "loaded"]
                  ELSE FAISS_build_index(fl.index, fl.documents, embedding_model,
                                         e.texts, e.docs, encoder)
            bb == IF bm25_loaded THEN bl.self ELSE BM25_build_index(Bm25New, e.texts, e.docs).self
        IN \/ \* load_data finds no JSON file: FileNotFoundError leaves
              \* initialize_components, and the retrievers it constructed
              \* are dropped
              /\ ~(faiss_loaded /\ bm25_loaded)
              /\ loader = "no_json_file"
              /\ processed = <<>> /\ encoder = "ok"
              /\ faiss_write = "no_write" /\ bm25_write = "no_write"
              /\ call' = [op |-> "initialize_components", documents |-> <<>>,
                          texts |-> <<>>,
                          faiss_snapshot |-> index_file.state,
                          bm25_snapshot |-> bm25_file.state,
                          faiss_loaded |-> faiss_loaded, bm25_loaded |-> bm25_loaded,
                          faiss_end |-> "raise"]
              /\ ret' = Raised
              /\ UNCHANGED <<hybridVars, bm25Vars, faissVars>>
           \/ \* the data is not read when both snapshots are loaded
              /\ loader = "loaded" \/ (faiss_loaded /\ bm25_loaded)
              /\ loader = "no_json_file" => processed = <<>>
              /\ fb.end /= "built" => (faiss_write = "no_write")
              /\ fb.end \in {"loaded", "nothing_to_index"} => encoder = "ok"
              /\ bm25_loaded => bm25_write = "no_write"
              /\ index' = fb.index
              /\ documents' = fb.documents
              /\ index_file' = WrittenIndex(index_file, fb.index,
                                             Writer(embedding_model, fb.index,
                                                    fb.documents),
                                             faiss_write)
              /\ documents_file' = WrittenDocuments(documents_file, fb.documents,
                                                     faiss_write)
              /\ bm25_fr' = bb.bm25_fr /\ bm25_ar' = bb.bm25_ar
              /\ tokenized_corpus_fr' = bb.tokenized_corpus_fr
              /\ tokenized_corpus_ar' = bb.tokenized_corpus_ar
              /\ documents_fr' = bb.documents_fr /\ documents_ar' = bb.documents_ar
              /\ bm25_file' = Written(bm25_file, SaveDataOf(bb), bm25_write)
              /\ hybrid' = [faiss_retriever |-> "faiss", bm25_retriever |-> "bm25",
                            faiss_weight |-> Rat(1, 2), bm25_weight |-> Rat(1, 2)]
              /\ call' = [op |-> "initialize_components", documents |-> e.docs,
                          texts |-> e.texts,
                          faiss_snapshot |-> index_file.state,
                          bm25_snapshot |-> bm25_file.state,
                          faiss_loaded |-> faiss_loaded, bm25_loaded |-> bm25_loaded,
                          faiss_end |-> fb.end]
              /\ ret' = ReturnedComponents
              /\ UNCHANGED <<data_path, argsort_ties, faissConfig>>
    /\ UNCHANGED threadVars

\* a search that detects the language before it looks at the query
HybridInvokedDetectFirst(self, query, language) ==
    IF language = None \/ language = "" THEN {"detect_language"} ELSE {}

\* what HybridRetriever.search calls
HybridInvoked(self, query, language) ==
    IF IsBlank(query) THEN {}
    ELSE (IF language = None \/ language = "" THEN {"detect_language"} ELSE {})
         \cup (IF self.faiss_retriever /= None THEN {"faiss_retriever.search"} ELSE {})
         \cup (IF self.bm25_retriever /= None THEN {"bm25_retriever.search"} ELSE {})

\* the calls HybridRetriever.search makes to a retriever: none when the
\* retriever is not there, else one, with internal_top_k and the language
SubCalls(retriever, query, top_k, language) ==
    IF retriever = None THEN <<>>
    ELSE <<[query |-> query, top_k |-> top_k, language |-> language]>>

\* lines 62-83: the language and the calls to the two retrievers
Dispatch(self, query, top_k, language, langdetect) ==
    LET lang == ResolveLanguage(query, language, langdetect)
    IN [faiss_calls |-> SubCalls(self.faiss_retriever, query, internal_top_k(top_k), lang),
        bm25_calls |-> SubCalls(self.bm25_retriever, query, internal_top_k(top_k), lang)]

\* HybridRetriever.search on the two retrievers with the given fields
HybridSearchOn(self, idx, docs, model, bm_fr, docs_fr, bm_ar, docs_ar, args) ==
    IF IsBlank(args.query)
    THEN [faiss_ret |-> Returned(<<>>), bm25_ret |-> Returned(<<>>), ret |-> Returned(<<>>)]
    ELSE LET d == Dispatch(self, args.query, args.top_k, args.language, args.langdetect)
             faiss_ret == IF d.faiss_calls = <<>> THEN Returned(<<>>)
                          ELSE FAISSRetriever_search(idx, docs, model,
                                                     d.faiss_calls[1].query,
                                                     d.faiss_calls[1].top_k,
                                                     d.faiss_calls[1].language,
                                                     args.encoder, faiss_ties)
             bm25_ret == IF d.bm25_calls = <<>> THEN Returned(<<>>)
                         ELSE BM25Retriever_search(bm_fr, docs_fr, bm_ar, docs_ar,
                                                   d.bm25_calls[1].query,
                                                   d.bm25_calls[1].top_k,
                                                   d.bm25_calls[1].language,
                                                   args.langdetect, argsort_ties)
         IN [faiss_ret |-> faiss_ret, bm25_ret |-> bm25_ret,
             ret |-> HybridRetriever_search(self, args.query, args.top_k, args.language,
                                            Ok(faiss_ret.value), Ok(bm25_ret.value))]

\* HybridRetriever.search on the two retrievers as they are, with a query
\* of queries and a top_k of top_ks
HybridSearchOver(queries, top_ks) ==
    /\ call = NoCall
    /\ ~NotInitialized
    /\ \E query \in queries, top_k \in top_ks, language \in Languages,
          langdetect \in LangdetectOutcomes, encoder \in EncoderOutcomes :
        LET args == [query |-> query, top_k |-> top_k, language |-> language,
                     langdetect |-> langdetect, encoder |-> encoder]
            d == Dispatch(hybrid, query, top_k, language, langdetect)
            s == HybridSearchOn(hybrid, index, documents, embedding_model, bm25_fr,
                                documents_fr, bm25_ar, documents_ar, args)
        IN /\ (language /= None \/ IsBlank(query)) => langdetect = "unavailable"
           /\ (index = NoneObject \/ IsBlank(query)) => encoder = "ok"
           /\ call' = [op |-> "HybridRetriever.search", query |-> query,
                       top_k |-> top_k, language |-> language,
                       langdetect |-> langdetect, encoder |-> encoder,
                       faiss_out |-> IF IsBlank(query) THEN NotCalled
                                     ELSE Ok(s.faiss_ret.value),
                       bm25_out |-> IF IsBlank(query) THEN NotCalled
                                    ELSE Ok(s.bm25_ret.value),
                       faiss_calls |-> IF IsBlank(query) THEN <<>> ELSE d.faiss_calls,
                       bm25_calls |-> IF IsBlank(query) THEN <<>> ELSE d.bm25_calls,
                       sub_language |-> ResolveLanguage(query, language, langdetect),
                       sub_top_k |-> internal_top_k(top_k),
                       invoked |-> HybridInvoked(hybrid, query, language)]
           /\ ret' = s.ret
    /\ UNCHANGED <<threadVars, hybridVars, bm25Vars, faissVars>>

\* the search with the small top_k of a request
HybridSearchIndices == HybridSearchOver(FaissQueries, 0..MaxTopK)

NextStartup ==
    \/ InitializeComponents
    \/ (~NotInitialized /\ BM25Search)
    \/ (~NotInitialized /\ FaissSearch)
    \/ HybridSearchIndices
    \/ Return

SpecStartup == InitStartup /\ [][NextStartup]_vars

(***************************************************************************)
(* Language detection: TextProcessor.detect_language, used by the          *)
(* retrievers, and LanguageDetector.detect_language with its default       *)
(* settings (supported_languages ['fr', 'ar'], default_language 'fr'),     *)
(* used by the chat service.  langdetect is what the langdetect package    *)
(* does with the text: it is not installed, it raises, or it gives a code. *)
(***************************************************************************)
supported_languages == {"fr", "ar"}
default_language == "fr"

\* the words in which a French keyword of the detector occurs ('capital')
FrenchKeywordWords == {"capital", "Capital"}

\* "len(text.strip()) < 2": one word of one character, a punctuation mark
\* included
ShorterThanTwo(text) == Len(text) = 1 /\ text[1] \in ShortTokens \cup Punctuation

\* _detect_with_patterns; the words of the model have no accented letter
detect_with_patterns(text) ==
    IF HasArabic(text)
    THEN IF "ar" \in supported_languages THEN "ar" ELSE default_language
    ELSE IF \E i \in DOMAIN text : text[i] \in FrenchKeywordWords
    THEN IF "fr" \in supported_languages THEN "fr" ELSE default_language
    ELSE default_language

LanguageDetector_detect_language(text, langdetect) ==
    IF IsBlank(text) \/ ShorterThanTwo(text) THEN default_language
    ELSE IF langdetect \in {"unavailable", "raise"} THEN detect_with_patterns(text)
    ELSE IF langdetect \in {"ar", "arb"}
    THEN IF "ar" \in supported_languages THEN "ar" ELSE default_language
    ELSE IF langdetect = "fr"
    THEN IF "fr" \in supported_languages THEN "fr" ELSE default_language
    ELSE IF langdetect \in supported_languages THEN langdetect
    ELSE detect_with_patterns(text)

ReturnedLanguage(language) == [kind |-> "return", language |-> language]

\* the texts given to the detectors: the empty text, and up to two words
DetectedTexts ==
    {<<>>} \cup {<<w>> : w \in Words} \cup {<<v, w>> : v \in Words, w \in Words}

InitLanguage ==
    /\ HybridUnused
    /\ NoThreads
    /\ call = NoCall /\ ret = NoRet
    /\ Bm25Fresh /\ data_path = None
    /\ FaissFresh /\ index_path = None

TextProcessorDetectLanguage ==
    /\ call = NoCall
    /\ \E text \in DetectedTexts, langdetect \in LangdetectOutcomes :
        /\ IsBlank(text) => langdetect = "unavailable"
        /\ call' = [op |-> "TextProcessor.detect_language", text |-> text,
                    langdetect |-> langdetect]
        /\ ret' = ReturnedLanguage(detect_language(text, langdetect))
    /\ UNCHANGED <<threadVars, hybridVars, bm25Vars, faissVars>>

LanguageDetectorDetectLanguage ==
    /\ call = NoCall
    /\ \E text \in DetectedTexts, langdetect \in LangdetectOutcomes :
        /\ IsBlank(text) => langdetect = "unavailable"
        /\ call' = [op |-> "LanguageDetector.detect_language", text |-> text,
                    langdetect |-> langdetect]
        /\ ret' = ReturnedLanguage(LanguageDetector_detect_language(text, langdetect))
    /\ UNCHANGED <<threadVars, hybridVars, bm25Vars, faissVars>>

NextLanguage ==
    \/ TextProcessorDetectLanguage \/ LanguageDetectorDetectLanguage
    \/ Return

SpecLanguage == InitLanguage /\ [][NextLanguage]_vars

(***************************************************************************)
(* BM25Retriever used by two threads: one inside build_index or            *)
(* load_index, one inside search.  Neither method takes a lock; a thread   *)
(* can be suspended between two statements.  A step of either thread reads *)
(* or writes the fields the other thread uses at most once: the search in  *)
(* French reads self.bm25_fr (lines 196 and 197) and self.documents_fr     *)
(* (line 201 and line 203, on every iteration of its loop); build_index    *)
(* writes documents_fr at lines 58, 64 and 93 and bm25_fr at line 97,      *)
(* load_index at lines 152 and 156.  Assignments to fields search in       *)
(* French does not read are taken together with a neighbouring step.       *)
(*                                                                         *)
(* builder.pre and builder.post are the fields before the call and as the  *)
(* call will leave them; searcher.live is the set of such complete states  *)
(* that existed while the search was running, searcher.overlapped whether  *)
(* a build or a load was running during the search, searcher.models and    *)
(* searcher.lists the values of bm25_fr and documents_fr the search has    *)
(* read.  They are kept for the properties and are not read by the         *)
(* methods.                                                                *)
(***************************************************************************)
Snapshot(bm_fr, docs_fr, bm_ar, docs_ar) ==
    [bm25_fr |-> bm_fr, documents_fr |-> docs_fr,
     bm25_ar |-> bm_ar, documents_ar |-> docs_ar]
CurrentSnapshot == Snapshot(bm25_fr, documents_fr, bm25_ar, documents_ar)
BuiltSnapshot(docs) ==
    LET fr == BuildPartition(TextsOf(docs), docs, "fr")
        ar == BuildPartition(TextsOf(docs), docs, "ar")
    IN Snapshot(fr.bm25, fr.documents, ar.bm25, ar.documents)
ModelOf(tokenized_corpus) ==
    IF tokenized_corpus /= <<>> THEN BM25Okapi(tokenized_corpus) ELSE NoneObject
LoadedSnapshot(data) ==
    Snapshot(ModelOf(data.tokenized_corpus_fr), data.documents_fr,
             ModelOf(data.tokenized_corpus_ar), data.documents_ar)
CompleteSnapshots ==
    IF builder = Idle THEN {CurrentSnapshot} ELSE {builder.pre, builder.post}

Searching == searcher.pc \notin {"idle", "returned"}

\* the searcher, when a build or a load begins
SearcherSeeing(post) ==
    IF Searching
    THEN [searcher EXCEPT !.live = @ \cup {post}, !.overlapped = TRUE]
    ELSE searcher

ConcCorpora == {Pick(DocPool, places) : places \in {<<>>, <<1, 3>>, <<1, 2, 3>>}}
ConcQueries == {<<"Capital">>, <<"capital", "delai">>}

InitConc ==
    /\ HybridUnused
    /\ NoThreads
    /\ call = NoCall /\ ret = NoRet
    /\ Bm25Fresh /\ data_path = BM25_DATA_PATH
    /\ FaissFresh /\ index_path = None

\* build_index, "self.documents_fr = []"
BuildResetFr ==
    /\ builder = Idle
    /\ \E docs \in ConcCorpora :
        /\ documents_fr' = <<>>
        /\ builder' = [pc |-> "reset_ar", documents |-> docs, i |-> 1,
                       pre |-> CurrentSnapshot, post |-> BuiltSnapshot(docs)]
        /\ searcher' = SearcherSeeing(BuiltSnapshot(docs))
    /\ UNCHANGED <<ioVars, hybridVars, faissVars, bm25_fr, bm25_ar, documents_ar,
                   tokenized_corpus_fr, tokenized_corpus_ar, data_path, bm25_file,
                   argsort_ties>>

\* "self.documents_ar = []"
BuildResetAr ==
    /\ builder.pc = "reset_ar"
    /\ documents_ar' = <<>>
    /\ builder' = [builder EXCEPT
                     !.pc = IF builder.documents = <<>> THEN "tokenize" ELSE "partition"]
    /\ UNCHANGED <<ioVars, hybridVars, faissVars, searcher, bm25_fr, bm25_ar,
                   documents_fr, tokenized_corpus_fr, tokenized_corpus_ar, data_path,
                   bm25_file, argsort_ties>>

\* one iteration of "for i, doc in enumerate(documents)": the document is
\* appended to the list of its language
BuildPartitionDocuments ==
    /\ builder.pc = "partition"
    /\ LET doc == builder.documents[builder.i]
       IN /\ documents_fr' =
                 IF doc.language = "fr" THEN Append(documents_fr, doc) ELSE documents_fr
          /\ documents_ar' =
                 IF doc.language = "ar" THEN Append(documents_ar, doc) ELSE documents_ar
    /\ builder' = [builder EXCEPT
                     !.i = @ + 1,
                     !.pc = IF builder.i = Len(builder.documents)
                            THEN "tokenize" ELSE "partition"]
    /\ UNCHANGED <<ioVars, hybridVars, faissVars, searcher, bm25_fr, bm25_ar,
                   tokenized_corpus_fr, tokenized_corpus_ar, data_path, bm25_file,
                   argsort_ties>>

\* "self.tokenized_corpus_fr = [preprocess(text, 'fr') for text in texts_fr]"
BuildTokenize ==
    /\ builder.pc = "tokenize"
    /\ LET texts == TextsOf(builder.documents)
           texts_fr == Pick(texts, LanguagePlaces(builder.documents, "fr"))
           texts_ar == Pick(texts, LanguagePlaces(builder.documents, "ar"))
       IN /\ tokenized_corpus_fr' = [k \in DOMAIN texts_fr |-> preprocess(texts_fr[k], "fr", NoDetection)]
          /\ tokenized_corpus_ar' = [k \in DOMAIN texts_ar |-> preprocess(texts_ar[k], "ar", NoDetection)]
    /\ builder' = [builder EXCEPT !.pc = "filter"]
    /\ UNCHANGED <<ioVars, hybridVars, faissVars, searcher, bm25_fr, bm25_ar,
                   documents_fr, documents_ar, data_path, bm25_file, argsort_ties>>

\* the four assignments of the filtered lists
BuildFilter ==
    /\ builder.pc = "filter"
    /\ tokenized_corpus_fr' = FilteredTokens(tokenized_corpus_fr)
    /\ tokenized_corpus_ar' = FilteredTokens(tokenized_corpus_ar)
    /\ documents_fr' = FilteredDocs(tokenized_corpus_fr, documents_fr)
    /\ documents_ar' = FilteredDocs(tokenized_corpus_ar, documents_ar)
    /\ builder' = [builder EXCEPT !.pc = "models"]
    /\ UNCHANGED <<ioVars, hybridVars, faissVars, searcher, bm25_fr, bm25_ar,
                   data_path, bm25_file, argsort_ties>>

\* "self.bm25_fr = BM25Okapi(...) if self.tokenized_corpus_fr else None"
BuildModels ==
    /\ builder.pc = "models"
    /\ bm25_fr' = ModelOf(tokenized_corpus_fr)
    /\ bm25_ar' = ModelOf(tokenized_corpus_ar)
    /\ builder' = [builder EXCEPT !.pc = "save"]
    /\ UNCHANGED <<ioVars, hybridVars, faissVars, searcher, tokenized_corpus_fr,
                   tokenized_corpus_ar, documents_fr, documents_ar, data_path,
                   bm25_file, argsort_ties>>

\* "if self.data_path: self._save_data()", and build_index returns
BuildSave ==
    /\ builder.pc = "save"
    /\ \E outcome \in WriteOutcomes :
        bm25_file' = Written(bm25_file, SaveData, outcome)
    /\ builder' = Idle
    /\ UNCHANGED <<ioVars, hybridVars, faissVars, searcher, bm25_fr, bm25_ar,
                   tokenized_corpus_fr, tokenized_corpus_ar, documents_fr,
                   documents_ar, data_path, argsort_ties>>

\* load_index, the pickle read and the four assignments from it
LoadData ==
    /\ builder = Idle
    /\ bm25_file.state = "saved"
    /\ tokenized_corpus_fr' = bm25_file.data.tokenized_corpus_fr
    /\ tokenized_corpus_ar' = bm25_file.data.tokenized_corpus_ar
    /\ documents_fr' = bm25_file.data.documents_fr
    /\ documents_ar' = bm25_file.data.documents_ar
    /\ builder' = [pc |-> "load_models", documents |-> <<>>, i |-> 1,
                   pre |-> CurrentSnapshot, post |-> LoadedSnapshot(bm25_file.data)]
    /\ searcher' = SearcherSeeing(LoadedSnapshot(bm25_file.data))
    /\ UNCHANGED <<ioVars, hybridVars, faissVars, bm25_fr, bm25_ar, data_path,
                   bm25_file, argsort_ties>>

\* load_index, the two models rebuilt, and load_index returns
LoadModels ==
    /\ builder.pc = "load_models"
    /\ bm25_fr' = ModelOf(tokenized_corpus_fr)
    /\ bm25_ar' = ModelOf(tokenized_corpus_ar)
    /\ builder' = Idle
    /\ UNCHANGED <<ioVars, hybridVars, faissVars, searcher, tokenized_corpus_fr,
                   tokenized_corpus_ar, documents_fr, documents_ar, data_path,
                   bm25_file, argsort_ties>>

\* search returns value ("return results", or "return []" of the branch
\* without a model and of the except clause); t is the thread as it ends
SearchReturns(t, value) ==
    /\ searcher' = [pc |-> "returned", query |-> t.query, top_k |-> t.top_k,
                    models |-> t.models, lists |-> t.lists, live |-> t.live,
                    overlapped |-> t.overlapped]
    /\ call' = [op |-> "BM25Retriever.search", query |-> t.query,
                top_k |-> t.top_k, language |-> "fr", sub_language |-> "fr"]
    /\ ret' = Returned(value)

\* the head of "for i, idx in enumerate(top_indices)": the next iteration,
\* or "return results" after the last one
SearchLoop(t) ==
    IF t.i > Len(t.top_indices) THEN SearchReturns(t, t.results)
    ELSE searcher' = t /\ UNCHANGED ioVars

\* search, to "if language == 'fr' and self.bm25_fr": the query is
\* tokenized and the model looked at; without a model search returns []
SearchBegin ==
    /\ searcher = Idle /\ call = NoCall
    /\ \E query \in ConcQueries, top_k \in 1..MaxTopK :
        LET t == [pc |-> "model_checked", query |-> query, top_k |-> top_k,
                  scores |-> <<>>, top_indices |-> <<>>, i |-> 1, results |-> <<>>,
                  models |-> {bm25_fr}, lists |-> {}, live |-> CompleteSnapshots,
                  overlapped |-> builder /= Idle]
        IN IF bm25_fr = NoneObject THEN SearchReturns(t, <<>>)
           ELSE searcher' = t /\ UNCHANGED ioVars
    /\ UNCHANGED <<hybridVars, bm25Vars, faissVars, builder>>

\* "scores = self.bm25_fr.get_scores(tokenized_query)" and top_indices: the
\* model is read again; on None the call raises AttributeError and the
\* except clause returns []
SearchScore ==
    /\ searcher.pc = "model_checked"
    /\ LET t == [searcher EXCEPT !.models = @ \cup {bm25_fr}]
       IN IF bm25_fr = NoneObject THEN SearchReturns(t, <<>>)
          ELSE LET scores == get_scores(bm25_fr, preprocess(searcher.query, "fr", NoDetection))
               IN SearchLoop([t EXCEPT
                                !.pc = "loop", !.scores = scores,
                                !.top_indices = TopIndices(scores, searcher.top_k,
                                                           argsort_ties)])
    /\ UNCHANGED <<hybridVars, bm25Vars, faissVars, builder>>

\* "if idx < len(self.documents_fr) and scores[idx] > 0": the length of the
\* list as it is now
SearchTest ==
    /\ searcher.pc = "loop"
    /\ LET idx == searcher.top_indices[searcher.i]
           t == [searcher EXCEPT !.lists = @ \cup {documents_fr}]
       IN IF idx <= Len(documents_fr) /\ searcher.scores[idx] > 0
          THEN searcher' = [t EXCEPT !.pc = "append"] /\ UNCHANGED ioVars
          ELSE SearchLoop([t EXCEPT !.i = @ + 1])
    /\ UNCHANGED <<hybridVars, bm25Vars, faissVars, builder>>

\* "results.append({'document': self.documents_fr[idx], ...})": the list is
\* read again; past its end the subscript raises IndexError and the except
\* clause returns []
SearchCollect ==
    /\ searcher.pc = "append"
    /\ LET idx == searcher.top_indices[searcher.i]
           t == [searcher EXCEPT !.lists = @ \cup {documents_fr}]
       IN IF idx > Len(documents_fr) THEN SearchReturns(t, <<>>)
          ELSE SearchLoop([t EXCEPT
                             !.pc = "loop", !.i = @ + 1,
                             !.results = Append(@, Result(documents_fr[idx],
                                                          Rat(searcher.scores[idx], 1),
                                                          searcher.i))])
    /\ UNCHANGED <<hybridVars, bm25Vars, faissVars, builder>>

\* the caller takes the result of the search
SearchReturn ==
    /\ searcher.pc = "returned"
    /\ searcher' = Idle
    /\ call' = NoCall /\ ret' = NoRet
    /\ UNCHANGED <<hybridVars, bm25Vars, faissVars, builder>>

NextConc ==
    \/ BuildResetFr \/ BuildResetAr \/ BuildPartitionDocuments \/ BuildTokenize
    \/ BuildFilter \/ BuildModels \/ BuildSave \/ LoadData \/ LoadModels
    \/ SearchBegin \/ SearchScore \/ SearchTest \/ SearchCollect \/ SearchReturn

SpecConc == InitConc /\ [][NextConc]_vars

(***************************************************************************)
(* The two retrievers rebuilt at run time, without snapshot paths: any     *)
(* sequence of build_index calls on one BM25Retriever and one              *)
(* FAISSRetriever.                                                         *)
(***************************************************************************)
InitRebuild ==
    /\ HybridUnused
    /\ NoThreads
    /\ call = NoCall /\ ret = NoRet
    /\ Bm25Fresh /\ data_path = None
    /\ FaissFresh /\ index_path = None

NextRebuild ==
    \/ BM25BuildIndex \/ FaissBuildIndex
    \/ Return

SpecRebuild == InitRebuild /\ [][NextRebuild]_vars

(***************************************************************************)
(* One FAISSRetriever without snapshot path, built from lists of more      *)
(* documents than a filtered search of top_k = 1 fetches, and searched.    *)
(***************************************************************************)
MaxVectors == 4
VectorPoolPlaces == {1, 2, 4, 7}
VectorCorpora ==
    {Pick(DocPool, Ascending(S)) :
        S \in {T \in SUBSET VectorPoolPlaces : Cardinality(T) <= MaxVectors}}

InitVectorSearch ==
    /\ HybridUnused
    /\ NoThreads
    /\ call = NoCall /\ ret = NoRet
    /\ Bm25Fresh /\ data_path = None
    /\ index = NoneObject /\ documents = <<>>
    /\ index_path = None
    /\ embedding_model = EMBEDDING_MODEL
    /\ faiss_ties \in ArgsortTies
    /\ index_file = Absent /\ documents_file = Absent

\* build_index(texts, documents) with the text of every document; no
\* index_path is configured, so nothing is saved
VectorBuildIndex ==
    /\ call = NoCall
    /\ index_path = None
    /\ \E docs \in VectorCorpora :
        LET b == FAISS_build_index(index, documents, embedding_model, TextsOf(docs),
                                   docs, "ok")
        IN /\ index' = b.index
           /\ documents' = b.documents
           /\ call' = [op |-> "FAISSRetriever.build_index", texts |-> TextsOf(docs),
                       documents |-> docs, end |-> b.end, encoder |-> "ok"]
           /\ ret' = ReturnedNone
    /\ UNCHANGED <<threadVars, hybridVars, bm25Vars, faissConfig, index_file,
                   documents_file>>

NextVectorSearch == VectorBuildIndex \/ FaissSearch \/ Return

SpecVectorSearch == InitVectorSearch /\ [][NextVectorSearch]_vars

(***************************************************************************)
(* The snapshot of a FAISSRetriever under the index paths a deployment can *)
(* configure (FAISS_INDEX_PATH is read from the environment).  A path is   *)
(* its pieces, ".bin" a piece of its own, as str.replace sees them.        *)
(***************************************************************************)
IndexPaths == {FAISS_INDEX_PATH, "data/faiss.index"}
PathParts(path) ==
    IF path = FAISS_INDEX_PATH THEN <<"data/faiss_index", ".bin">> ELSE <<path>>

\* self.index_path.replace('.bin', '_docs.pkl')
documents_path(path) ==
    [i \in DOMAIN PathParts(path) |->
        IF PathParts(path)[i] = ".bin" THEN "_docs.pkl" ELSE PathParts(path)[i]]

\* _save_index: faiss.write_index(self.index, self.index_path), then
\* pickle.dump(self.documents, open(documents_path, 'wb')).  When the two
\* paths are one file, the pickle replaces the index written before it:
\* read_index cannot read what the file then holds.
FAISS_save_index(path, ifile, dfile, idx, docs, writer, outcome) ==
    IF documents_path(path) /= PathParts(path)
    THEN [index_file |-> WrittenIndex(ifile, idx, writer, outcome),
          documents_file |-> WrittenDocuments(dfile, docs, outcome)]
    ELSE IF outcome = "no_write" THEN [index_file |-> ifile, documents_file |-> dfile]
    ELSE IF outcome = "ok" THEN [index_file |-> Corrupt, documents_file |-> Saved(docs)]
    ELSE IF outcome = "index_only"
    THEN [index_file |-> SavedBy(idx, writer), documents_file |-> Corrupt]
    ELSE [index_file |-> Corrupt, documents_file |-> Corrupt]

InitSnapshotPaths ==
    /\ HybridUnused
    /\ NoThreads
    /\ call = NoCall /\ ret = NoRet
    /\ Bm25Fresh /\ data_path = None
    /\ index = NoneObject /\ documents = <<>>
    /\ index_path \in IndexPaths
    /\ embedding_model = EMBEDDING_MODEL
    /\ faiss_ties = "index_ascending"
    /\ index_file = Absent /\ documents_file = Absent

\* build_index(texts, documents), with the _save_index that ends it
SnapshotBuildIndex ==
    /\ call = NoCall
    /\ \E docs \in FaissCorpora, encoder \in EncoderOutcomes,
          outcome \in FaissWriteOutcomes :
        LET b == FAISS_build_index(index, documents, embedding_model, TextsOf(docs),
                                   docs, encoder)
            s == FAISS_save_index(index_path, index_file, documents_file, b.index,
                                  b.documents,
                                  Writer(embedding_model, b.index, b.documents), outcome)
        IN /\ b.end /= "built" => outcome = "no_write"
           /\ b.end \in {"nothing_to_index", "raise", "no_valid_texts"} => encoder = "ok"
           /\ index' = b.index
           /\ documents' = b.documents
           /\ index_file' = s.index_file
           /\ documents_file' = s.documents_file
           /\ call' = [op |-> "FAISSRetriever.build_index", texts |-> TextsOf(docs),
                       documents |-> docs, end |-> b.end, encoder |-> encoder,
                       outcome |-> outcome]
           /\ ret' = IF b.end = "raise" THEN Raised ELSE ReturnedNone
    /\ UNCHANGED <<threadVars, hybridVars, bm25Vars, faissConfig>>

NextSnapshotPaths == SnapshotBuildIndex \/ FaissLoadIndex \/ FaissNew \/ Return

SpecSnapshotPaths == InitSnapshotPaths /\ [][NextSnapshotPaths]_vars

(***************************************************************************)
(* RNEDataLoader.process_data.  raw_data, the loaded files in the order    *)
(* they were read, is the argument of the call; the list it returns is     *)
(* processed_data.  An item is a JSON object: a key it does not have is    *)
(* None here.  A file is named by its stem, the name without ".json".      *)
(***************************************************************************)
MaxItems == 2
FileStems == {"rne_laws", "external_data"}
FileName(stem) == stem \o ".json"

Item(id, code, french_content, arabic_content) ==
    [id |-> id, code |-> code, french_content |-> french_content,
     arabic_content |-> arabic_content]
Items ==
    {Item(id, code, fr, ar) :
        id \in {None, "A1_fr"}, code \in {None, "A1"},
        fr \in {None, "", "capital minimum"}, ar \in {None, "sharika_ar"}}

\* _is_rne_law_item
is_rne_law_item(item) ==
    (item.french_content /= None \/ item.arabic_content /= None) /\ item.code /= None

LoaderDoc(id, language, source_file, data_type, raw_content) ==
    [id |-> id, language |-> language, source_file |-> source_file,
     data_type |-> data_type, raw_content |-> raw_content]

\* _process_rne_law_item: one document for each language with content
process_rne_law_item(item) ==
    (IF item.french_content \notin {None, ""}
     THEN <<LoaderDoc(item.code \o "_fr", "fr", "rne_laws.json", "rne_law",
                      item.french_content)>>
     ELSE <<>>)
    \o
    (IF item.arabic_content \notin {None, ""}
     THEN <<LoaderDoc(item.code \o "_ar", "ar", "rne_laws.json", "rne_law",
                      item.arabic_content)>>
     ELSE <<>>)

\* item.get('id', item.get('code', f"{filename.replace('.json', '')}_{idx}"))
general_item_id(item, stem, idx) ==
    IF item.id /= None THEN item.id
    ELSE IF item.code /= None THEN item.code
    ELSE stem \o "_" \o ToString(idx)

data_type_of(filename) ==
    IF filename = "external_data.json" THEN "business_fiscal"
    ELSE IF filename = "fiscal_knowledge.json" THEN "fiscal_info"
    ELSE IF filename = "rne_laws.json" THEN "rne_law"
    ELSE "general"

\* _process_general_item
process_general_item(item, stem, idx) ==
    LoaderDoc(general_item_id(item, stem, idx), "fr", FileName(stem),
              data_type_of(FileName(stem)), "item")

\* _process_file_data: "for idx, item in enumerate(file_data)", idx from 0
RECURSIVE process_file_data(_, _, _)
process_file_data(stem, file_data, n) ==
    IF n > Len(file_data) THEN <<>>
    ELSE (IF FileName(stem) = "rne_laws.json" /\ is_rne_law_item(file_data[n])
          THEN process_rne_law_item(file_data[n])
          ELSE <<process_general_item(file_data[n], stem, n - 1)>>)
         \o process_file_data(stem, file_data, n + 1)

\* process_data: "for filename, file_data in self.raw_data.items()"
RECURSIVE process_files(_, _)
process_files(raw_data, f) ==
    IF f > Len(raw_data) THEN <<>>
    ELSE process_file_data(raw_data[f].stem, raw_data[f].data, 1)
         \o process_files(raw_data, f + 1)

\* what load_data finds under the data paths: no JSON file, or the files
\* it could parse (none, when every file is malformed)
NoJsonFile == [json_files |-> FALSE, raw_data |-> <<>>]
JsonFiles(raw_data) == [json_files |-> TRUE, raw_data |-> raw_data]

\* process_data: "if not self.raw_data: self.load_data()", then the
\* documents of every file in raw_data.  load_data raises
\* FileNotFoundError when it finds no JSON file.
process_data(raw_data, directory) ==
    IF raw_data /= <<>> THEN Returned(process_files(raw_data, 1))
    ELSE IF ~directory.json_files THEN Raised
    ELSE Returned(process_files(directory.raw_data, 1))

\* the files loaded, in the order they were read: each stem at most once
FileOrders ==
    {<<>>} \cup {<<s>> : s \in FileStems}
    \cup {<<t[1], t[2]>> : t \in {u \in FileStems \X FileStems : u[1] /= u[2]}}
\* the contents of a file of n items
ItemLists(n) == [1..n -> Items]
\* self.raw_data for the files read and their contents
RawData(files, d1, d2) ==
    [i \in DOMAIN files |-> [stem |-> files[i], data |-> IF i = 1 THEN d1 ELSE d2]]

InitLoader ==
    /\ HybridUnused
    /\ NoThreads
    /\ call = NoCall /\ ret = NoRet
    /\ Bm25Fresh /\ data_path = None
    /\ FaissFresh /\ index_path = None

\* process_data on a loader that holds the files of an earlier load_data,
\* or holds none and reads the data paths; at most MaxItems items in all
ProcessData ==
    /\ call = NoCall
    /\ \E files \in FileOrders, n1 \in 0..MaxItems, n2 \in 0..MaxItems,
          source \in {"raw_data", "directory", "no_json_file"} :
        /\ n1 + n2 <= MaxItems
        /\ Len(files) < 2 => n2 = 0
        /\ Len(files) < 1 => n1 = 0
        /\ source = "raw_data" => files /= <<>>
        /\ source = "no_json_file" => files = <<>>
        /\ \E d1 \in ItemLists(n1), d2 \in ItemLists(n2) :
            LET raw_data == IF source = "raw_data" THEN RawData(files, d1, d2) ELSE <<>>
                directory == IF source = "directory" THEN JsonFiles(RawData(files, d1, d2))
                             ELSE NoJsonFile
            IN /\ call' = [op |-> "RNEDataLoader.process_data", raw_data |-> raw_data,
                           directory |-> directory,
                           processed |-> IF source = "raw_data" THEN raw_data
                                         ELSE directory.raw_data]
               /\ ret' = process_data(raw_data, directory)
    /\ UNCHANGED <<threadVars, hybridVars, bm25Vars, faissVars>>

NextLoader == ProcessData \/ Return

SpecLoader == InitLoader /\ [][NextLoader]_vars

(***************************************************************************)
(* Concurrent readers.  The application is initialized (both indices built *)
(* from the loader's list) and two request threads search.  A search reads *)
(* the fields of the retrievers one after the other; between two reads of  *)
(* one thread the other thread can take any number of steps.  In this      *)
(* specification searcher holds one record for each thread: what the       *)
(* thread was asked and what it has read so far.                           *)
(***************************************************************************)
Readers == {"request_1", "request_2"}
ReaderOps == {"BM25Retriever.search", "FAISSRetriever.search", "HybridRetriever.search"}
ReaderQueries == {<<"capital">>, <<"sharika_ar">>}
ReaderCorpora == {Pick(LoaderPool, <<1, 2, 3>>), Pick(LoaderPool, <<5, 1, 2, 4>>)}

\* the fields a search has read; before it read them, those of a retriever
\* just constructed
ReaderSeen(t, idx, docs, bm_fr, bm_ar, docs_fr, docs_ar) ==
    [pc |-> t.pc, op |-> t.op, query |-> t.query, top_k |-> t.top_k,
     language |-> t.language, overlapped |-> t.overlapped,
     repeats |-> t.repeats,
     index |-> idx, documents |-> docs, bm25_fr |-> bm_fr, bm25_ar |-> bm_ar,
     documents_fr |-> docs_fr, documents_ar |-> docs_ar, result |-> t.result]

\* what the search of thread record t returns from the fields it read, with
\* the HybridRetriever self
ReaderResult(t, self) ==
    IF t.op = "BM25Retriever.search"
    THEN BM25Retriever_search(t.bm25_fr, t.documents_fr, t.bm25_ar, t.documents_ar,
                              t.query, t.top_k, t.language, "unavailable", argsort_ties)
    ELSE IF t.op = "FAISSRetriever.search"
    THEN FAISSRetriever_search(t.index, t.documents, embedding_model, t.query, t.top_k,
                               t.language, "ok", faiss_ties)
    ELSE HybridSearchOn(self, t.index, t.documents, embedding_model, t.bm25_fr,
                        t.documents_fr, t.bm25_ar, t.documents_ar,
                        [query |-> t.query, top_k |-> t.top_k, language |-> t.language,
                         langdetect |-> "unavailable", encoder |-> "ok"]).ret

\* the other threads, noted as overlapped when they are in a search
Overlapping(r) ==
    [o \in Readers \ {r} |->
        IF searcher[o].pc = "idle" THEN searcher[o]
        ELSE [searcher[o] EXCEPT !.overlapped = TRUE]]

InitReaders ==
    /\ call = NoCall /\ ret = NoRet
    /\ builder = Idle
    /\ searcher = [r \in Readers |-> Idle]
    /\ data_path = BM25_DATA_PATH
    /\ argsort_ties = "index_ascending"
    /\ index_path = FAISS_INDEX_PATH
    /\ embedding_model = EMBEDDING_MODEL
    /\ faiss_ties = "index_ascending"
    /\ hybrid = [faiss_retriever |-> "faiss", bm25_retriever |-> "bm25",
                 faiss_weight |-> Rat(1, 2), bm25_weight |-> Rat(1, 2)]
    /\ \E processed \in ReaderCorpora :
        LET e == extract_text_for_indexing(processed)
            fb == FAISS_build_index(NoneObject, <<>>, EMBEDDING_MODEL, e.texts,
                                    e.docs, "ok")
            bb == BM25_build_index(Bm25New, e.texts, e.docs).self
        IN /\ index = fb.index /\ documents = fb.documents
           /\ index_file = WrittenIndex(Absent, fb.index,
                                         Writer(EMBEDDING_MODEL, fb.index, fb.documents),
                                         "ok")
           /\ documents_file = WrittenDocuments(Absent, fb.documents, "ok")
           /\ bm25_fr = bb.bm25_fr /\ bm25_ar = bb.bm25_ar
           /\ tokenized_corpus_fr = bb.tokenized_corpus_fr
           /\ tokenized_corpus_ar = bb.tokenized_corpus_ar
           /\ documents_fr = bb.documents_fr /\ documents_ar = bb.documents_ar
           /\ bm25_file = Written(Absent, SaveDataOf(bb), "ok")

\* a request thread enters search(query, top_k, language); the language
\* is left out in calls of HybridRetriever.search only.  The record notes
\* whether another thread is in a search, and whether the call repeats a
\* HybridRetriever.search that has its result.
ReaderCall ==
    \E r \in Readers :
        /\ searcher[r].pc = "idle"
        /\ \E op \in ReaderOps, query \in ReaderQueries, top_k \in 1..MaxTopK,
              language \in Languages :
            /\ language = None => op = "HybridRetriever.search"
            /\ searcher' =
                [o \in Readers |->
                    IF o /= r THEN Overlapping(r)[o]
                    ELSE [pc |-> "called", op |-> op, query |-> query, top_k |-> top_k,
                          language |-> language,
                          overlapped |-> \E p \in Readers \ {r} : searcher[p].pc /= "idle",
                          repeats |-> \E p \in Readers \ {r} :
                                         /\ op = "HybridRetriever.search"
                                         /\ searcher[p].pc = "done"
                                         /\ searcher[p].op = op
                                         /\ searcher[p].query = query
                                         /\ searcher[p].top_k = top_k
                                         /\ searcher[p].language = language,
                          index |-> NoneObject, documents |-> <<>>,
                          bm25_fr |-> NoneObject, bm25_ar |-> NoneObject,
                          documents_fr |-> <<>>, documents_ar |-> <<>>,
                          result |-> NoRet]]
        /\ UNCHANGED <<ioVars, hybridVars, bm25Vars, faissVars, builder>>

\* FAISSRetriever.search to "self.index.search(...)": self.index is read
ReaderReadIndex ==
    \E r \in Readers :
        /\ searcher[r].pc = "called"
        /\ searcher[r].op /= "BM25Retriever.search"
        /\ searcher[r].op = "HybridRetriever.search" => hybrid.faiss_retriever /= None
        /\ searcher' = [searcher EXCEPT ![r].pc = "index_read", ![r].index = index]
        /\ UNCHANGED <<ioVars, hybridVars, bm25Vars, faissVars, builder>>

\* a search step that takes the first document off self.documents
ReaderTakingDocuments ==
    \E r \in Readers :
        /\ searcher[r].pc = "index_read"
        /\ documents' = IF documents = <<>> THEN <<>> ELSE Tail(documents)
        /\ LET t == [searcher[r] EXCEPT !.documents = documents]
           IN searcher' =
                [searcher EXCEPT ![r] =
                    IF t.op = "FAISSRetriever.search"
                    THEN [t EXCEPT !.pc = "done", !.result = ReaderResult(t, hybrid)]
                    ELSE [t EXCEPT !.pc = "vector_done"]]
        /\ UNCHANGED <<ioVars, hybridVars, bm25Vars, faissConfig, index, index_file,
                       documents_file, builder>>

\* FAISSRetriever.search, the loop over the rows found: self.documents is
\* read, and the search returns
ReaderReadDocuments ==
    \E r \in Readers :
        /\ searcher[r].pc = "index_read"
        /\ LET t == [searcher[r] EXCEPT !.documents = documents]
           IN searcher' =
                [searcher EXCEPT ![r] =
                    IF t.op = "FAISSRetriever.search"
                    THEN [t EXCEPT !.pc = "done", !.result = ReaderResult(t, hybrid)]
                    ELSE [t EXCEPT !.pc = "vector_done"]]
        /\ UNCHANGED <<ioVars, hybridVars, bm25Vars, faissVars, builder>>

\* BM25Retriever.search to "bm25_model.get_scores(...)": the models are read
ReaderReadModels ==
    \E r \in Readers :
        /\ \/ searcher[r].pc = "called" /\ searcher[r].op = "BM25Retriever.search"
           \/ searcher[r].pc = "vector_done" /\ hybrid.bm25_retriever /= None
        /\ searcher' = [searcher EXCEPT ![r].pc = "models_read",
                                        ![r].bm25_fr = bm25_fr, ![r].bm25_ar = bm25_ar]
        /\ UNCHANGED <<ioVars, hybridVars, bm25Vars, faissVars, builder>>

\* BM25Retriever.search, the loop over top_indices: the document list of
\* the partition is read, and the search returns
ReaderReadPartitions ==
    \E r \in Readers :
        /\ searcher[r].pc = "models_read"
        /\ LET t == [searcher[r] EXCEPT !.documents_fr = documents_fr,
                                        !.documents_ar = documents_ar]
           IN searcher' =
                [searcher EXCEPT ![r] =
                    IF t.op = "BM25Retriever.search"
                    THEN [t EXCEPT !.pc = "done", !.result = ReaderResult(t, hybrid)]
                    ELSE [t EXCEPT !.pc = "lexical_done"]]
        /\ UNCHANGED <<ioVars, hybridVars, bm25Vars, faissVars, builder>>

\* a _combine_results that returns the fused list and leaves faiss_weight
\* at zero
ReaderFuseLosingWeight ==
    \E r \in Readers :
        /\ searcher[r].pc = "lexical_done"
        /\ searcher' = [searcher EXCEPT ![r].pc = "done",
                                        ![r].result = ReaderResult(searcher[r], hybrid)]
        /\ hybrid' = [hybrid EXCEPT !.faiss_weight = Zero]
        /\ UNCHANGED <<ioVars, bm25Vars, faissVars, builder>>

\* HybridRetriever.search, _combine_results: the weights are read, and the
\* search returns
ReaderFuse ==
    \E r \in Readers :
        /\ searcher[r].pc = "lexical_done"
        /\ searcher' = [searcher EXCEPT ![r].pc = "done",
                                        ![r].result = ReaderResult(searcher[r], hybrid)]
        /\ UNCHANGED <<ioVars, hybridVars, bm25Vars, faissVars, builder>>

\* the request thread takes the result
ReaderReturn ==
    \E r \in Readers :
        /\ searcher[r].pc = "done"
        /\ searcher' = [searcher EXCEPT ![r] = Idle]
        /\ UNCHANGED <<ioVars, hybridVars, bm25Vars, faissVars, builder>>

NextReaders ==
    \/ ReaderCall \/ ReaderReadIndex \/ ReaderReadDocuments \/ ReaderReadModels
    \/ ReaderReadPartitions \/ ReaderFuse \/ ReaderReturn

SpecReaders == InitReaders /\ [][NextReaders]_vars

(***************************************************************************)
(* The dispatch of HybridRetriever.search in the initialized application:  *)
(* searches with the small top_k of a request and with a top_k whose       *)
(* double is above the 10 results the sub-indices are always asked for.    *)
(* The latter get every document of the language; with a query of two      *)
(* words the vector index gives them three different cosines, so that      *)
(* _normalize_scores places one of them between 0 and 1.                   *)
(***************************************************************************)
LargeTopK == 6
ManyResultQueries == FaissQueries \cup {<<"capital", "minimum">>}

HybridSearchManyResults == HybridSearchOver(ManyResultQueries, {LargeTopK})

NextDispatch == HybridSearchIndices \/ HybridSearchManyResults \/ Return

SpecDispatch == InitReaders /\ [][NextDispatch]_vars

(***************************************************************************)
(* Properties of the fusion.  They are stated on the arguments and the     *)
(* result of the last call, with their own arithmetic on whole numbers.    *)
(***************************************************************************)
\* the list a sub-index call yields: empty when it raised or was not made
Yield(out) == IF out.kind = "ok" THEN out.results ELSE <<>>
Prefix(s, k) == [i \in 1..(IF k < Len(s) THEN k ELSE Len(s)) |-> s[i]]

SearchCalled == call.op = "HybridRetriever.search" /\ call.query /= <<>>

\* the last call fused two non-empty lists
Fused ==
    \/ call.op = "_combine_results"
    \/ /\ SearchCalled
       /\ Yield(call.faiss_out) /= <<>>
       /\ Yield(call.bm25_out) /= <<>>
FusedFaiss ==
    IF call.op = "_combine_results" THEN call.faiss_results ELSE Yield(call.faiss_out)
FusedBm25 ==
    IF call.op = "_combine_results" THEN call.bm25_results ELSE Yield(call.bm25_out)

IdsOf(results) == {results[i].document.id : i \in DOMAIN results}
PlacesOf(results, id) == {i \in DOMAIN results : results[i].document.id = id}
\* the entry of a list whose score the fusion keeps for an id is the last
\* one that holds it: each assignment to doc_scores[doc_id] replaces the
\* one before; the key stays where it was first inserted
PlaceOf(results, id) ==
    CHOOSE i \in PlacesOf(results, id) : \A j \in PlacesOf(results, id) : j <= i
FirstPlaceOf(results, id) ==
    CHOOSE i \in PlacesOf(results, id) : \A j \in PlacesOf(results, id) : i <= j
RawOf(results, id) == results[PlaceOf(results, id)].score.n
RawSet(results) == {results[i].score.n : i \in DOMAIN results}
Lowest(S) == CHOOSE m \in S : \A t \in S : m <= t
Highest(S) == CHOOSE m \in S : \A t \in S : m >= t

\* the min-max-normalized score of a document in a list, as a fraction
\* <<numerator, denominator>>; 0 when the document is not in the list
MinMax(results, id) ==
    IF id \notin IdsOf(results) THEN <<0, 1>>
    ELSE IF Highest(RawSet(results)) = Lowest(RawSet(results)) THEN <<1, 1>>
    ELSE <<RawOf(results, id) - Lowest(RawSet(results)),
           Highest(RawSet(results)) - Lowest(RawSet(results))>>

\* faiss_weight * n_v + bm25_weight * n_l as a fraction
Weighted(id) ==
    LET nv == MinMax(FusedFaiss, id)
        nl == MinMax(FusedBm25, id)
        wf == hybrid.faiss_weight
        wb == hybrid.bm25_weight
    IN <<wf.n * nv[1] * wb.d * nl[2] + wb.n * nl[1] * wf.d * nv[2],
         wf.d * nv[2] * wb.d * nl[2]>>
\* the same for a document: its own min-max-normalized score in a list,
\* 0 when the list does not hold the document
DocsOf(results) == {results[i].document : i \in DOMAIN results}
DocMinMax(results, doc) ==
    IF doc \notin DocsOf(results) THEN <<0, 1>>
    ELSE IF Highest(RawSet(results)) = Lowest(RawSet(results)) THEN <<1, 1>>
    ELSE LET place == CHOOSE i \in DOMAIN results : results[i].document = doc
         IN <<results[place].score.n - Lowest(RawSet(results)),
              Highest(RawSet(results)) - Lowest(RawSet(results))>>
DocWeighted(doc) ==
    LET nv == DocMinMax(FusedFaiss, doc)
        nl == DocMinMax(FusedBm25, doc)
        wf == hybrid.faiss_weight
        wb == hybrid.bm25_weight
    IN <<wf.n * nv[1] * wb.d * nl[2] + wb.n * nl[1] * wf.d * nv[2],
         wf.d * nv[2] * wb.d * nl[2]>>
Candidates == IdsOf(FusedFaiss) \cup IdsOf(FusedBm25)
\* an id that each list holds at most once
HeldOnce(id) ==
    Cardinality(PlacesOf(FusedFaiss, id)) <= 1 /\ Cardinality(PlacesOf(FusedBm25, id)) <= 1
FracLT(a, b) == a[1] * b[2] < b[1] * a[2]
FracEQ(a, b) == a[1] * b[2] = b[1] * a[2]

\* C1: for a non-empty query, when exactly one of the two sub-index searches
\* yields a non-empty list (the other is empty, absent or raised), search
\* returns the first top_k entries of that list, each entry unchanged
C1_DegradedMode ==
    SearchCalled =>
        LET f == Yield(call.faiss_out)
            b == Yield(call.bm25_out)
        IN /\ (f = <<>> /\ b /= <<>>) =>
                ret = [kind |-> "return", value |-> Prefix(b, call.top_k)]
           /\ (f /= <<>> /\ b = <<>>) =>
                ret = [kind |-> "return", value |-> Prefix(f, call.top_k)]

C1_Witness ==
    /\ SearchCalled
    /\ call.faiss_out = Ok(<<>>)
    /\ call.top_k = 1
    /\ Len(Yield(call.bm25_out)) = 2
    /\ ret.value = <<call.bm25_out.results[1]>>

\* C2: search never raises; when a sub-index search raises, the result is
\* the one that sub-index returning no results gives: the first top_k
\* entries of the other list, and the empty list when that one is empty
\* or raised too
C2_FailureIsolation ==
    call.op = "HybridRetriever.search" =>
        /\ ret.kind = "return"
        /\ (SearchCalled /\ "raise" \in {call.faiss_out.kind, call.bm25_out.kind}) =>
                LET f == Yield(call.faiss_out)
                    b == Yield(call.bm25_out)
                IN ret.value = Prefix(IF f /= <<>> THEN f ELSE b, call.top_k)

C2_Witness ==
    /\ SearchCalled
    /\ call.bm25_out.kind = "raise"
    /\ call.top_k = 2
    /\ Len(Yield(call.faiss_out)) = 2
    /\ ret = [kind |-> "return", value |-> call.faiss_out.results]

\* C3: every entry of a fused result has
\* score = faiss_weight * n_v + bm25_weight * n_l, n_v and n_l the min-max
\* normalized scores of its document in the two lists, 0 where it is absent
C3_FusedScore ==
    Fused =>
        \A k \in DOMAIN ret.value :
            LET e == ret.value[k]
            IN /\ e.document \in DocsOf(FusedFaiss) \cup DocsOf(FusedBm25)
               /\ FracEQ(<<e.score.n, e.score.d>>, DocWeighted(e.document))

\* what holds of the code: the formula holds of every entry whose id each
\* list holds at most once
C3_FusedScoreOfIdsHeldOnce ==
    Fused =>
        \A k \in DOMAIN ret.value :
            LET e == ret.value[k]
            IN HeldOnce(e.document.id) =>
                  /\ e.document \in DocsOf(FusedFaiss) \cup DocsOf(FusedBm25)
                  /\ FracEQ(<<e.score.n, e.score.d>>, DocWeighted(e.document))
\* and of every entry with n_v and n_l the normalized scores of the last
\* entries of the two lists that hold its id
C3_FusedScoreOfLastEntries ==
    Fused =>
        \A k \in DOMAIN ret.value :
            LET e == ret.value[k]
            IN /\ e.document.id \in IdsOf(FusedFaiss) \cup IdsOf(FusedBm25)
               /\ FracEQ(<<e.score.n, e.score.d>>, Weighted(e.document.id))

\* a fused result with an entry of both lists and an entry of the BM25
\* list alone, under weights that differ
C3_BothContributionsReached ==
    /\ Fused
    /\ hybrid.faiss_weight /= hybrid.bm25_weight
    /\ hybrid.faiss_weight /= Zero
    /\ \A id \in Candidates : HeldOnce(id)
    /\ \E k \in DOMAIN ret.value :
          /\ ret.value[k].document.id \in IdsOf(FusedFaiss) \cap IdsOf(FusedBm25)
          /\ ret.value[k].score = RatAdd(hybrid.faiss_weight, hybrid.bm25_weight)
    /\ \E k \in DOMAIN ret.value :
          /\ ret.value[k].document.id \notin IdsOf(FusedFaiss)
          /\ ret.value[k].score = Zero
\* the BM25 list holds two documents of an id the FAISS list does not hold:
\* the entry is the first document with the score of the second
C3_SecondScoreOnFirstDocumentReached ==
    /\ Fused
    /\ Len(FusedBm25) = 2
    /\ FusedBm25[1].document.id = FusedBm25[2].document.id
    /\ FusedBm25[1].document.id \notin IdsOf(FusedFaiss)
    /\ hybrid.bm25_weight /= Zero
    /\ \E k \in DOMAIN ret.value :
          /\ ret.value[k].document = FusedBm25[1].document
          /\ ret.value[k].bm25_score = Zero

\* C4: _normalize_scores of a non-empty list keeps its length, documents
\* and order; every score lies in [0, 1]; when the scores are not all equal
\* the highest becomes 1, the lowest 0 and the order between scores is
\* kept; when they are all equal every score becomes exactly 1
C4_MinMaxNormalization ==
    (call.op = "_normalize_scores" /\ call.results /= <<>>) =>
        LET in == call.results
            out == ret.value
            lo == Lowest(RawSet(in))
            hi == Highest(RawSet(in))
        IN /\ ret.kind = "return"
           /\ Len(out) = Len(in)
           /\ \A i \in DOMAIN in :
                /\ out[i].document = in[i].document
                /\ out[i].rank = in[i].rank
                /\ out[i].score.d > 0
                /\ 0 <= out[i].score.n /\ out[i].score.n <= out[i].score.d
                /\ hi = lo => out[i].score = [n |-> 1, d |-> 1]
                /\ (hi /= lo /\ in[i].score.n = hi) => out[i].score = [n |-> 1, d |-> 1]
                /\ (hi /= lo /\ in[i].score.n = lo) => out[i].score = [n |-> 0, d |-> 1]
           /\ \A i, j \in DOMAIN in :
                in[i].score.n < in[j].score.n =>
                    out[i].score.n * out[j].score.d < out[j].score.n * out[i].score.d

C4_Witness ==
    /\ call.op = "_normalize_scores"
    /\ Len(call.results) = 3
    /\ call.results[1].score.n < 0
    /\ call.results[2].score.n > call.results[3].score.n
    /\ call.results[3].score.n > call.results[1].score.n
    /\ ret.value[3].score.n > 0
    /\ ret.value[3].score.n < ret.value[3].score.d

\* C5: a fused result is the first top_k of the candidate documents in
\* descending order of combined score, documents of equal score in
\* insertion order (the FAISS list, then the documents only BM25 gave);
\* it has at most top_k entries, ranked 1, 2, ..., n
Inserted(id) ==
    IF id \in IdsOf(FusedFaiss) THEN FirstPlaceOf(FusedFaiss, id)
    ELSE Len(FusedFaiss) + FirstPlaceOf(FusedBm25, id)
Before(x, y) ==
    \/ FracLT(Weighted(y), Weighted(x))
    \/ FracEQ(Weighted(x), Weighted(y)) /\ Inserted(x) < Inserted(y)

C5_FusedOrdering ==
    Fused =>
        LET out == ret.value
            k == IF call.top_k < Cardinality(Candidates)
                 THEN call.top_k ELSE Cardinality(Candidates)
        IN /\ Len(out) = k
           /\ Len(out) <= call.top_k
           /\ \A i \in DOMAIN out :
                /\ out[i].rank = i
                /\ out[i].document.id \in Candidates
                /\ Cardinality({x \in Candidates : Before(x, out[i].document.id)}) = i - 1

C5_Witness ==
    /\ Fused
    /\ call.top_k = 2
    /\ Cardinality(Candidates) = 3
    /\ Len(ret.value) = 2
    /\ ret.value[1].score = ret.value[2].score
    /\ ret.value[1].document.id \notin IdsOf(FusedBm25)
    /\ ret.value[2].document.id \notin IdsOf(FusedFaiss)

(***************************************************************************)
(* Properties of the lexical index.                                        *)
(***************************************************************************)
Bm25SearchCalled == call.op = "BM25Retriever.search" /\ call.query /= <<>>

\* the document list of the partition the last search was sent to
SearchedDocuments ==
    IF call.sub_language = "fr" THEN documents_fr
    ELSE IF call.sub_language = "ar" THEN documents_ar
    ELSE <<>>

\* the place of a document in the corpus of its partition
CorpusPlace(doc) ==
    CHOOSE i \in DOMAIN SearchedDocuments : SearchedDocuments[i] = doc

ScoreLess(a, b) == a.n * b.d < b.n * a.d
ScoreEqual(a, b) == a.n * b.d = b.n * a.d

PositiveScores ==
    \A i \in DOMAIN ret.value : ret.value[i].score.n > 0
NonIncreasingScores ==
    \A i \in DOMAIN ret.value : \A j \in DOMAIN ret.value :
        i < j => ~ScoreLess(ret.value[i].score, ret.value[j].score)

\* C6: for every built corpus, every non-empty query and every top_k >= 0,
\* BM25Retriever.search returns only documents with a score > 0, in
\* non-increasing order of score, and at most top_k of them.
C6_SearchResultShape ==
    Bm25SearchCalled =>
        /\ PositiveScores
        /\ NonIncreasingScores
        /\ Len(ret.value) <= call.top_k

\* what holds of the code: the shape for top_k >= 1, and for top_k = 0
\* every document with a positive score
C6_ShapeForPositiveTopK ==
    Bm25SearchCalled =>
        /\ PositiveScores
        /\ NonIncreasingScores
        /\ call.top_k >= 1 => Len(ret.value) <= call.top_k

\* C7: two documents of one partition with identical positive scores, both
\* returned, are listed with the lower corpus index first.  Stated for
\* top_k >= 1, where the list has the length asked for.
C7_TieBreaking ==
    (Bm25SearchCalled /\ call.top_k >= 1) =>
        \A i \in DOMAIN ret.value : \A j \in DOMAIN ret.value :
            (i < j /\ ScoreEqual(ret.value[i].score, ret.value[j].score))
                => CorpusPlace(ret.value[i].document)
                       < CorpusPlace(ret.value[j].document)

\* what holds of the code: among equal scores the order is the one argsort
\* gives, reversed
C7_TieOrderOfTheCode ==
    Bm25SearchCalled =>
        \A i \in DOMAIN ret.value : \A j \in DOMAIN ret.value :
            (i < j /\ ScoreEqual(ret.value[i].score, ret.value[j].score))
                => IF argsort_ties = "index_ascending"
                   THEN CorpusPlace(ret.value[i].document)
                            > CorpusPlace(ret.value[j].document)
                   ELSE CorpusPlace(ret.value[i].document)
                            < CorpusPlace(ret.value[j].document)

Aligned(tokenized_corpus, docs, bm25, language) ==
    /\ Len(tokenized_corpus) = Len(docs)
    /\ \A i \in DOMAIN docs :
        i \in DOMAIN tokenized_corpus
            => tokenized_corpus[i] = preprocess(docs[i].content, language, NoDetection)
    /\ bm25 /= NoneObject => bm25.corpus = tokenized_corpus

\* C8: in every state reached by build_index, _save_data and load_index
\* calls, for each language the tokenized corpus is as long as the document
\* list, entry i is the token list of document i, and the BM25 model, when
\* there is one, was built from exactly that tokenized corpus.
C8_LexicalAlignment ==
    /\ Aligned(tokenized_corpus_fr, documents_fr, bm25_fr, "fr")
    /\ Aligned(tokenized_corpus_ar, documents_ar, bm25_ar, "ar")

\* what holds of the code: after a build_index that returns the alignment
\* holds.  A build_index that raises (fewer texts than documents) breaks
\* it, _save_data writes the lists as they are and load_index reads them
\* back.
C8_AlignedAfterBuildThatReturns ==
    (/\ call /= NoCall
     /\ call.op = "BM25Retriever.build_index"
     /\ ret = ReturnedNone)
        => C8_LexicalAlignment

\* a build_index that raised and left a French document beside an empty
\* tokenized corpus
C8_RaisedBuildReached ==
    /\ call /= NoCall
    /\ call.op = "BM25Retriever.build_index"
    /\ ret = Raised
    /\ Len(call.texts) < Len(call.documents)
    /\ documents_fr /= <<>> /\ tokenized_corpus_fr = <<>>
\* a load_index that returned True and restored lists a raising build left
C8_MisalignedLoadReached ==
    /\ call /= NoCall
    /\ call.op = "BM25Retriever.load_index"
    /\ ret = ReturnedBool(TRUE)
    /\ ~C8_LexicalAlignment
\* a build_index one text short that returned: the document without text
\* has no supported language
C8_ShortBuildReturnedReached ==
    /\ call /= NoCall
    /\ call.op = "BM25Retriever.build_index"
    /\ ret = ReturnedNone
    /\ Len(call.texts) < Len(call.documents)
    /\ documents_fr /= <<>>
\* a build that dropped a document of stopwords only, kept one document in
\* each partition and saved the result
C8_AlignedBuildReached ==
    /\ call.op = "BM25Retriever.build_index"
    /\ \E i \in DOMAIN call.documents : call.documents[i].id = 5
    /\ Len(documents_fr) = 1 /\ Len(documents_ar) = 1
    /\ bm25_fr /= NoneObject
    /\ bm25_file.state = "saved"

(***************************************************************************)
(* Properties of the vector index.                                         *)
(***************************************************************************)
RowsAligned(model, idx, docs) ==
    /\ ntotal(idx) = Len(docs)
    /\ \A i \in DOMAIN docs :
        i \in DOMAIN idx.rows
            => idx.rows[i] = normalize_L2(Embed(model, docs[i].content))

\* C9: in every state reached by FAISSRetriever.build_index and load_index
\* calls, whenever the index is not None the number of stored vectors
\* equals len(documents) and row i is the embedding of documents[i].
C9_VectorAlignment ==
    index /= NoneObject => RowsAligned(embedding_model, index, documents)

\* what holds of the code: the rows and the documents are aligned after a
\* build that reached index.add, and after a load that found both files
C9_AlignedAfterCompleteBuild ==
    /\ (call.op = "FAISSRetriever.build_index" /\ call.end = "built")
           => RowsAligned(embedding_model, index, documents)
    /\ \A model \in EmbeddingModels :
        (call.op = "FAISSRetriever.load_index" /\ ret = ReturnedBool(TRUE)
            /\ documents_file.state = "saved"
            /\ RowsAligned(model, index_file.data, documents_file.data))
           => RowsAligned(model, index, documents)

(***************************************************************************)
(* Properties of the snapshots of the vector index.                        *)
(***************************************************************************)
\* two retrievers of one model give the same list for every search
SameFaissResults(idx_a, docs_a, idx_b, docs_b, model) ==
    \A query \in FaissQueries, top_k \in 0..MaxTopK, language \in Languages :
        FAISSRetriever_search(idx_a, docs_a, model, query, top_k, language, "ok",
                              faiss_ties)
            = FAISSRetriever_search(idx_b, docs_b, model, query, top_k, language,
                                    "ok", faiss_ties)

FaissLoadSucceeded ==
    call.op = "FAISSRetriever.load_index" /\ ret = ReturnedBool(TRUE)

\* C11: after build_index or _save_data wrote a snapshot, a retriever
\* constructed with the same path on which load_index returns True gives,
\* for every query, top_k and language, the same result list as the
\* retriever that wrote the snapshot.
C11_PersistenceRoundTrip ==
    (FaissLoadSucceeded /\ index_file.writer.embedding_model = embedding_model)
        => SameFaissResults(index, documents, index_file.writer.index,
                            index_file.writer.documents, embedding_model)

\* what holds of the code: the round trip when the documents file is the
\* one written with the index file
C11_RoundTripOfBothFiles ==
    (/\ FaissLoadSucceeded
     /\ index_file.writer.embedding_model = embedding_model
     /\ documents_file = Saved(index_file.writer.documents))
        => SameFaissResults(index, documents, index_file.writer.index,
                            index_file.writer.documents, embedding_model)

\* C12: load_index on a path whose snapshot is corrupt gives its caller
\* another value or error than load_index on a path with no snapshot.
C12_MissingVersusCorrupt ==
    (call.op = "FAISSRetriever.load_index" /\ call.snapshot = "corrupt")
        => ret /= FAISS_load_index(index_path, Absent, Absent, index, documents).ret

\* C13: load_index of a snapshot written with another embedding model than
\* the retriever's does not report success.
C13_ModelMismatchDetected ==
    (/\ call.op = "FAISSRetriever.load_index"
     /\ call.snapshot = "saved"
     /\ index_file.writer.embedding_model /= embedding_model)
        => ret /= ReturnedBool(TRUE)

\* a document that C14 keeps out of the sub-indices
Excluded(doc) == IsBlank(doc.content) \/ doc.language \notin {"fr", "ar"}

\* C14: after build_index(texts, documents) the vector index holds, and
\* returns, no document whose text is empty and no document whose
\* language is missing or not fr or ar.
C14_BuildTimeExclusion ==
    /\ (call.op = "FAISSRetriever.build_index" /\ ret = ReturnedNone)
           => \A i \in DOMAIN documents : ~Excluded(documents[i])
    /\ call.op = "FAISSRetriever.search"
           => \A i \in DOMAIN ret.value : ~Excluded(ret.value[i].document)

\* what holds of the code: a build that reached index.add keeps no
\* document with an empty text, and the lexical index keeps no document
\* with an empty text or another language than its partition's
C14_EmptyTextsExcludedWhenBuilt ==
    (call.op = "FAISSRetriever.build_index" /\ call.end = "built")
        => \A i \in DOMAIN documents : ~IsBlank(documents[i].content)
C14_LexicalExclusion ==
    /\ \A i \in DOMAIN documents_fr :
          ~IsBlank(documents_fr[i].content) /\ documents_fr[i].language = "fr"
    /\ \A i \in DOMAIN documents_ar :
          ~IsBlank(documents_ar[i].content) /\ documents_ar[i].language = "ar"
    /\ call.op = "BM25Retriever.search"
           => \A i \in DOMAIN ret.value : ~Excluded(ret.value[i].document)

\* C20: build_index on a non-empty corpus that does not end with a built
\* index raises; it never returns normally.
C20_BuildErrorsAreFatal ==
    (/\ call.op = "FAISSRetriever.build_index"
     /\ call.texts /= <<>> /\ call.documents /= <<>>
     /\ call.end /= "built")
        => ret = Raised

(***************************************************************************)
(* Properties of the searches of the running application.                  *)
(***************************************************************************)
HybridSearched == call.op = "HybridRetriever.search"
SearchOps == {"HybridRetriever.search", "BM25Retriever.search", "FAISSRetriever.search"}

\* C15: every document returned by HybridRetriever.search has the resolved
\* query language: the explicit one, or the detected one when none is
\* given.
C15_NoCrossLanguageResults ==
    HybridSearched
        => \A i \in DOMAIN ret.value :
              ret.value[i].document.language = call.sub_language

\* a search on detected language that returned documents while the vector
\* index held documents of another language
C15_Witness ==
    /\ HybridSearched
    /\ call.language = None
    /\ ret.value /= <<>>
    /\ index /= NoneObject
    /\ \E i \in DOMAIN documents : documents[i].language /= call.sub_language

\* the tokens of a BM25 query, and the token lists of its partition
QueryTokens == preprocess(call.query, call.sub_language, NoDetection)
PartitionCorpus ==
    IF call.sub_language = "fr" THEN tokenized_corpus_fr
    ELSE IF call.sub_language = "ar" THEN tokenized_corpus_ar
    ELSE <<>>
AbsentFromCorpus(tokens, corpus) ==
    \A i \in DOMAIN tokens : \A j \in DOMAIN corpus : \A k \in DOMAIN corpus[j] :
        corpus[j][k] /= tokens[i]

\* C17: for an empty query the three searches return the empty list and
\* call neither language detection, tokenization, embedding nor a
\* sub-index; BM25Retriever.search also returns the empty list when the
\* query has no token or only tokens absent from the corpus.
C17_EmptyQuery ==
    /\ (call.op \in SearchOps /\ IsBlank(call.query))
           => ret = Returned(<<>>) /\ call.invoked = {}
    /\ (call.op = "BM25Retriever.search" /\ ~IsBlank(call.query)
            /\ AbsentFromCorpus(QueryTokens, PartitionCorpus))
           => ret = Returned(<<>>)

\* an empty query given to HybridRetriever.search over two built indices
C17_Witness ==
    /\ HybridSearched
    /\ IsBlank(call.query)
    /\ call.language = None
    /\ index /= NoneObject /\ bm25_fr /= NoneObject

\* a BM25 query whose tokens are all absent from a non-empty partition
C17_OutOfVocabularyReached ==
    /\ call.op = "BM25Retriever.search"
    /\ QueryTokens /= <<>>
    /\ PartitionCorpus /= <<>>
    /\ AbsentFromCorpus(QueryTokens, PartitionCorpus)

\* no document of the language in the vector index, in the lexical index
NoVectorOf(language) ==
    \/ index = NoneObject
    \/ ntotal(index) = 0
    \/ \A i \in DOMAIN documents : documents[i].language /= language
NoLexicalModelOf(language) ==
    /\ language = "fr" => bm25_fr = NoneObject
    /\ language = "ar" => bm25_ar = NoneObject

\* C18: when no document of language L is indexed, the three searches with
\* language L return the empty list and raise nothing.
C18_LanguageWithoutDocuments ==
    /\ (call.op = "FAISSRetriever.search" /\ call.language /= None
            /\ NoVectorOf(call.language))
           => ret = Returned(<<>>)
    /\ (call.op = "BM25Retriever.search" /\ NoLexicalModelOf(call.sub_language))
           => ret = Returned(<<>>)
    /\ (HybridSearched /\ NoVectorOf(call.sub_language)
            /\ NoLexicalModelOf(call.sub_language))
           => ret = Returned(<<>>)

\* an Arabic query over indices that hold French documents only
C18_Witness ==
    /\ HybridSearched
    /\ ~IsBlank(call.query)
    /\ call.sub_language = "ar"
    /\ index /= NoneObject /\ bm25_fr /= NoneObject
    /\ NoVectorOf("ar") /\ NoLexicalModelOf("ar")

\* a vector search by language on a retriever that has no index
C18_NoIndexReached ==
    /\ call.op = "FAISSRetriever.search"
    /\ call.language = "fr" /\ ~IsBlank(call.query)
    /\ index = NoneObject

(***************************************************************************)
(* Properties of the startup.                                              *)
(***************************************************************************)
Initialized == call.op = "initialize_components" /\ ret = ReturnedComponents

\* the fields of the two retrievers after build_index on the list
BothBuiltFrom(docs) ==
    LET f == FAISS_build_index(NoneObject, <<>>, embedding_model, LoaderTexts(docs), docs,
                               "ok")
        b == BM25_build_index(Bm25New, LoaderTexts(docs), docs).self
    IN /\ index = f.index /\ documents = f.documents
       /\ Bm25State(bm25_fr, bm25_ar, tokenized_corpus_fr, tokenized_corpus_ar,
                    documents_fr, documents_ar) = b

\* C19: after initialize_components either both sub-indices were loaded
\* from their snapshots or both were built from the same list; a missing
\* snapshot leads to that sub-index being built before the
\* HybridRetriever is created.
C19_StartupLifecycle ==
    (Initialized /\ call.documents /= <<>>)
        => /\ \/ call.faiss_loaded /\ call.bm25_loaded
              \/ BothBuiltFrom(call.documents)
           /\ call.faiss_snapshot = "absent"
                  => /\ index /= NoneObject
                     /\ documents = call.documents
           /\ call.bm25_snapshot = "absent"
                  => BM25_build_index(Bm25New, call.texts, call.documents).self
                        = Bm25State(bm25_fr, bm25_ar, tokenized_corpus_fr,
                                    tokenized_corpus_ar, documents_fr, documents_ar)

\* what holds of the code: when neither snapshot loads and the encoder
\* works, both sub-indices are built from the loader's list; the lexical
\* index is always the loaded one or the one built from that list
C19_BuiltTogetherWhenNeitherLoads ==
    (Initialized /\ call.documents /= <<>>)
        => /\ (~call.faiss_loaded /\ ~call.bm25_loaded /\ call.faiss_end = "built")
                  => BothBuiltFrom(call.documents)
           /\ ~call.bm25_loaded
                  => BM25_build_index(Bm25New, call.texts, call.documents).self
                        = Bm25State(bm25_fr, bm25_ar, tokenized_corpus_fr,
                                    tokenized_corpus_ar, documents_fr, documents_ar)

(***************************************************************************)
(* Properties of the language detection.                                   *)
(***************************************************************************)
DetectCalled ==
    call.op \in {"TextProcessor.detect_language", "LanguageDetector.detect_language"}

\* C16: TextProcessor.detect_language and LanguageDetector.detect_language
\* return only 'fr' or 'ar', and 'fr' for an empty text and for a text in
\* which nothing is detected.
C16_DetectedLanguageIsSupported ==
    DetectCalled
        => /\ ret.language \in {"fr", "ar"}
           /\ IsBlank(call.text) => ret.language = "fr"
           /\ (call.langdetect \in {"unavailable", "raise"} /\ ~HasArabic(call.text))
                  => ret.language = "fr"

\* what holds of the code: the claim for LanguageDetector, and for
\* TextProcessor when langdetect is missing, raises, or gives fr, ar or arb
C16_SupportedUnlessOtherCode ==
    (/\ DetectCalled
     /\ \/ call.op = "LanguageDetector.detect_language"
        \/ IsBlank(call.text)
        \/ call.langdetect \in {"unavailable", "raise", "fr", "ar", "arb"})
        => /\ ret.language \in {"fr", "ar"}
           /\ IsBlank(call.text) => ret.language = "fr"
           /\ (call.langdetect \in {"unavailable", "raise"} /\ ~HasArabic(call.text))
                  => ret.language = "fr"

(***************************************************************************)
(* Properties of a search concurrent with a rebuild.                       *)
(***************************************************************************)
\* the search that returned scored against a model and read a document list
SearchObserved ==
    /\ searcher.pc = "returned"
    /\ searcher.models /= {NoneObject}
    /\ searcher.lists /= {}

\* the complete state s is all the search read
SawOnly(s) ==
    /\ \A m \in searcher.models : m = s.bm25_fr
    /\ \A l \in searcher.lists : l = s.documents_fr

\* the result of the search on the complete state s
ResultOn(s) ==
    BM25Retriever_search(s.bm25_fr, s.documents_fr, s.bm25_ar, s.documents_ar,
                         searcher.query, searcher.top_k, "fr", "unavailable",
                         argsort_ties)

\* C10: a search concurrent with build_index or load_index observes the
\* scoring model together with its document list as they were before the
\* rebuild or as they are after it, never the model of one with the list
\* of the other.
C10_AtomicSnapshotSwap ==
    SearchObserved => \E s \in searcher.live : SawOnly(s) /\ ret = ResultOn(s)

\* what holds of the code: a search that no build or load overlaps sees one
\* complete state and returns the result on it
C10_SearchAloneSeesOneState ==
    (searcher.pc = "returned" /\ ~searcher.overlapped) =>
        \E s \in searcher.live : SawOnly(s) /\ ret = ResultOn(s)

\* a search that returns one document at two ranks: the list was replaced
\* between two iterations of the loop
C10_SameDocumentTwiceReached ==
    /\ searcher.pc = "returned"
    /\ \E i, j \in DOMAIN ret.value :
          i /= j /\ ret.value[i].document = ret.value[j].document

\* a search that returns rank 2 alone: the list was empty at the first
\* iteration and refilled at the second
C10_LoneSecondRankReached ==
    /\ searcher.pc = "returned"
    /\ Len(ret.value) = 1
    /\ ret.value[1].rank = 2
    /\ \A s \in searcher.live : ret /= ResultOn(s)

(***************************************************************************)
(* Properties of a repeated build.                                         *)
(***************************************************************************)
\* C21: build_index called again on the same retriever with the same texts
\* and documents (and the encoder doing what it did) leaves the document
\* lists, the tokenized corpora and the vectors as the first call left
\* them.
C21_BuildIdempotence ==
    /\ (call.op = "FAISSRetriever.build_index" /\ ret = ReturnedNone)
           => LET again == FAISS_build_index(index, documents, embedding_model,
                                             call.texts, call.documents, call.encoder)
              IN again.index = index /\ again.documents = documents
    /\ call.op = "BM25Retriever.build_index"
           => LET self == Bm25State(bm25_fr, bm25_ar, tokenized_corpus_fr,
                                    tokenized_corpus_ar, documents_fr, documents_ar)
                  again == BM25_build_index(self, call.texts, call.documents)
              IN again.self = self /\ again.ret = ret

\* a build whose embedding step failed, on a retriever that held the index
\* and the documents of an earlier build
C21_Witness ==
    /\ call.op = "FAISSRetriever.build_index"
    /\ call.end = "no_embeddings"
    /\ index /= NoneObject
    /\ documents /= <<>>
    /\ bm25_ar /= NoneObject

\* a build that replaced the index of another corpus
C21_RebuiltReached ==
    /\ call.op = "FAISSRetriever.build_index"
    /\ call.end = "built"
    /\ Len(call.documents) > Len(documents)
    /\ documents_fr /= <<>>

(***************************************************************************)
(* Properties of HybridRetriever.search over the two indices.              *)
(***************************************************************************)
\* two request threads were given the same HybridRetriever.search and
\* both have their result
SameSearchTwice(r, o) ==
    /\ searcher[r].pc = "done" /\ searcher[o].pc = "done"
    /\ searcher[r].op = "HybridRetriever.search"
    /\ searcher[o].op = "HybridRetriever.search"
    /\ searcher[r].query = searcher[o].query
    /\ searcher[r].top_k = searcher[o].top_k
    /\ searcher[r].language = searcher[o].language

C26_DispatchParameters ==
    (HybridSearched /\ ~IsBlank(call.query))
        => LET expected == IF call.language /= None THEN call.language
                           ELSE detect_language(call.query, call.langdetect)
               calls == call.faiss_calls \o call.bm25_calls
           IN /\ Len(call.faiss_calls) <= 1 /\ Len(call.bm25_calls) <= 1
              /\ \A i \in DOMAIN calls :
                    /\ calls[i].top_k = Max(2 * call.top_k, 10)
                    /\ calls[i].language = expected
                    /\ calls[i].query = call.query

\* a search for more than five results without language that called both
\* sub-indices for twice as many, the classifier giving a code that is
\* neither fr nor ar
C26_Witness ==
    /\ HybridSearched
    /\ call.language = None
    /\ call.langdetect = "en"
    /\ call.top_k = LargeTopK
    /\ 2 * call.top_k > 10
    /\ Len(call.faiss_calls) = 1 /\ Len(call.bm25_calls) = 1
    /\ call.faiss_calls[1].top_k = 2 * call.top_k
    /\ call.bm25_calls[1].top_k = 2 * call.top_k
    /\ call.faiss_calls[1].language = "en"

\* a search for few results, which asks the sub-indices for 10
C26_TenAskedReached ==
    /\ HybridSearched
    /\ call.language = "ar"
    /\ call.top_k = 1
    /\ Len(call.faiss_calls) = 1 /\ Len(call.bm25_calls) = 1
    /\ call.faiss_calls[1].top_k = 10
    /\ call.bm25_calls[1].top_k = 10

(***************************************************************************)
(* Further properties of the fusion.                                       *)
(***************************************************************************)
\* C23: when the FAISS list and the BM25 list have the same document first
\* and the weights are not negative, that document has rank 1 in the fused
\* result for every top_k >= 1.
C23_TopDocumentAgreement ==
    (/\ Fused
     /\ call.top_k >= 1
     /\ hybrid.faiss_weight.n >= 0 /\ hybrid.bm25_weight.n >= 0
     /\ FusedFaiss[1].document = FusedBm25[1].document)
        => /\ ret.value /= <<>>
           /\ ret.value[1].document = FusedFaiss[1].document
           /\ ret.value[1].rank = 1

\* what holds of the code: the common first document has rank 1 when no
\* later entry of either list holds its id
C23_TopDocumentOfIdHeldOnce ==
    (/\ Fused
     /\ call.top_k >= 1
     /\ hybrid.faiss_weight.n >= 0 /\ hybrid.bm25_weight.n >= 0
     /\ FusedFaiss[1].document = FusedBm25[1].document
     /\ HeldOnce(FusedFaiss[1].document.id))
        => /\ ret.value /= <<>>
           /\ ret.value[1].document = FusedFaiss[1].document
           /\ ret.value[1].rank = 1

\* the common first document ties with another document of the fused list
C23_TiedFirstReached ==
    /\ Fused
    /\ call.top_k >= 1
    /\ FusedFaiss[1].document = FusedBm25[1].document
    /\ HeldOnce(FusedFaiss[1].document.id)
    /\ \E id \in (IdsOf(FusedFaiss) \cup IdsOf(FusedBm25)) \ {FusedFaiss[1].document.id} :
          FracEQ(Weighted(id), Weighted(FusedFaiss[1].document.id))
\* the common first document lost its FAISS score to a later document of
\* its id, and the second document of both lists has rank 1
C23_SecondDocumentFirstReached ==
    /\ Fused
    /\ call.top_k >= 1
    /\ Len(FusedFaiss) = 3 /\ Len(FusedBm25) = 3
    /\ FusedFaiss[1].document = FusedBm25[1].document
    /\ FusedFaiss[3].document.id = FusedFaiss[1].document.id
    /\ ret.value[1].document = FusedFaiss[2].document
    /\ ret.value[1].document = FusedBm25[2].document

\* C28: the fused result holds each document id at most once; a document
\* of both lists is one entry with both contributions; every entry has
\* score = faiss_score + bm25_score.
C28_Deduplication ==
    Fused
        => /\ \A i, j \in DOMAIN ret.value :
                 ret.value[i].document.id = ret.value[j].document.id => i = j
           /\ \A i \in DOMAIN ret.value :
                 LET e == ret.value[i]
                     nv == MinMax(FusedFaiss, e.document.id)
                     nl == MinMax(FusedBm25, e.document.id)
                 IN /\ e.document.id \in IdsOf(FusedFaiss) \cup IdsOf(FusedBm25)
                    /\ e.score = RatAdd(e.faiss_score, e.bm25_score)
                    /\ e.faiss_score.n * hybrid.faiss_weight.d * nv[2]
                          = hybrid.faiss_weight.n * nv[1] * e.faiss_score.d
                    /\ e.bm25_score.n * hybrid.bm25_weight.d * nl[2]
                          = hybrid.bm25_weight.n * nl[1] * e.bm25_score.d

\* an entry of a document of both lists, with two contributions above 0
C28_Witness ==
    /\ Fused
    /\ \E i \in DOMAIN ret.value :
          /\ ret.value[i].document.id \in IdsOf(FusedFaiss) \cap IdsOf(FusedBm25)
          /\ ret.value[i].faiss_score.n > 0
          /\ ret.value[i].bm25_score.n > 0
    /\ Len(ret.value) < Len(FusedFaiss) + Len(FusedBm25)

\* C29: _combine_results and _normalize_scores leave the result records of
\* the lists they are given as they were; after fusion the records still
\* hold their raw scores.
C29_NormalizationIsPure ==
    /\ call.op = "_normalize_scores" => call.results_after = call.results
    /\ call.op = "_combine_results"
           => /\ call.faiss_results_after = call.faiss_results
              /\ call.bm25_results_after = call.bm25_results

\* what holds of the code: the lists keep their length and order, and
\* every record its document and its rank
SameButScores(after, given) ==
    /\ Len(after) = Len(given)
    /\ \A i \in DOMAIN given :
          after[i].document = given[i].document /\ after[i].rank = given[i].rank
C29_OnlyScoresRewritten ==
    /\ call.op = "_normalize_scores" => SameButScores(call.results_after, call.results)
    /\ call.op = "_combine_results"
           => /\ SameButScores(call.faiss_results_after, call.faiss_results)
              /\ SameButScores(call.bm25_results_after, call.bm25_results)

(***************************************************************************)
(* The language-filtered vector search.                                    *)
(***************************************************************************)
\* a FAISSRetriever.search with a language, on a built index, whose query
\* was embedded
FilteredVectorSearch ==
    /\ call /= NoCall
    /\ call.op = "FAISSRetriever.search"
    /\ call.language \notin {None, ""}
    /\ call.encoder = "ok"
    /\ ~IsBlank(call.query)
    /\ index /= NoneObject

\* the similarity of every row to the query of the call
QuerySimilarity ==
    LET q == normalize_L2(Embed(embedding_model, call.query))
    IN [i \in DOMAIN index.rows |-> Dot(q, index.rows[i])]

\* the min(3 * top_k, ntotal) nearest rows, nearest first
NearestRows ==
    LET sim == QuerySimilarity
        order == [n \in DOMAIN sim |->
                    CHOOSE i \in DOMAIN sim :
                        Cardinality({j \in DOMAIN sim :
                                        FaissBefore(sim, faiss_ties, j, i)}) = n - 1]
    IN SubSeq(order, 1, Min(3 * call.top_k, Len(index.rows)))

\* the candidates whose document has the language of the call
MatchingRows ==
    SelectSeq(NearestRows, LAMBDA i : documents[i].language = call.language)

\* C27: a search with a language examines the min(3 * top_k, ntotal) nearest
\* rows, nearest first, and returns the first top_k of them whose document
\* has that language, with ranks 1..n and scores that never rise; it
\* returns fewer than top_k when fewer of the candidates match.
C27_LanguageFilteredSearch ==
    FilteredVectorSearch
        => /\ ret.kind = "return"
           /\ \A n \in 1..(Len(NearestRows) - 1) :
                 RatLE(QuerySimilarity[NearestRows[n + 1]], QuerySimilarity[NearestRows[n]])
           /\ \A i \in DOMAIN index.rows :
                 (\A n \in DOMAIN NearestRows : NearestRows[n] /= i)
                     => \A n \in DOMAIN NearestRows :
                           RatLE(QuerySimilarity[i], QuerySimilarity[NearestRows[n]])
           /\ Len(ret.value) = Min(call.top_k, Len(MatchingRows))
           /\ \A n \in DOMAIN ret.value :
                 /\ ret.value[n].document = documents[MatchingRows[n]]
                 /\ ret.value[n].score = QuerySimilarity[MatchingRows[n]]
                 /\ ret.value[n].rank = n
           /\ \A n \in 1..(Len(ret.value) - 1) :
                 RatLE(ret.value[n + 1].score, ret.value[n].score)

\* fewer than top_k results although a document of the language is indexed
\* beyond the candidates
C27_Witness ==
    /\ FilteredVectorSearch
    /\ call.top_k >= 1
    /\ Len(ret.value) < call.top_k
    /\ Cardinality({i \in DOMAIN documents : documents[i].language = call.language})
          > Len(ret.value)

\* a full page after documents of another language were passed over
C27_SkippedReached ==
    /\ FilteredVectorSearch
    /\ call.top_k >= 1
    /\ Len(ret.value) = call.top_k
    /\ MatchingRows[1] /= NearestRows[1]

(***************************************************************************)
(* The two files of the vector snapshot.                                   *)
(***************************************************************************)
\* a build_index whose _save_index wrote both artifacts without error
SaveCompleted ==
    /\ call /= NoCall
    /\ call.op = "FAISSRetriever.build_index"
    /\ call.end = "built"
    /\ call.outcome = "ok"

\* load_index on the files as they are, by the retriever as it is
LoadNow == FAISS_load_index(index_path, index_file, documents_file, index, documents)

\* C30: for every configured index_path _save_index writes the index and
\* the documents to two different paths, and a save that completed without
\* error is followed by a successful load_index on the same path.
C30_ArtifactsKeptApart ==
    SaveCompleted
        => /\ documents_path(index_path) /= PathParts(index_path)
           /\ LoadNow.ret = ReturnedBool(TRUE)
           /\ LoadNow.index = index
           /\ LoadNow.documents = documents

\* what holds of the code: the same, for an index_path with ".bin" in it
C30_KeptApartWithBinSuffix ==
    (SaveCompleted /\ index_path = FAISS_INDEX_PATH)
        => /\ documents_path(index_path) /= PathParts(index_path)
           /\ LoadNow.ret = ReturnedBool(TRUE)
           /\ LoadNow.index = index
           /\ LoadNow.documents = documents

\* a completed save under a path without ".bin", and the load that failed
C30_OverwrittenReached ==
    /\ call /= NoCall
    /\ call.op = "FAISSRetriever.load_index"
    /\ index_path /= FAISS_INDEX_PATH
    /\ documents_file.state = "saved"
    /\ ret = ReturnedBool(FALSE)

(***************************************************************************)
(* The ids of the documents the loader produces.                           *)
(***************************************************************************)
Processed ==
    call /= NoCall /\ call.op = "RNEDataLoader.process_data" /\ ret.kind = "return"

\* C25: no two documents of the list process_data returns have the same id
C25_IdsGloballyUnique ==
    Processed
        => \A i, j \in DOMAIN ret.value : ret.value[i].id = ret.value[j].id => i = j

\* what holds of the code: the documents of one RNE law item, the French
\* and the Arabic one, have different ids
C25_UniquePerLawItem ==
    (/\ Processed
     /\ Len(call.processed) = 1
     /\ call.processed[1].stem = "rne_laws"
     /\ Len(call.processed[1].data) = 1)
        => \A i, j \in DOMAIN ret.value : ret.value[i].id = ret.value[j].id => i = j

\* a law item with code A1 and an item of another file with id "A1_fr":
\* two different documents with one id
C25_SameIdReached ==
    /\ Processed
    /\ \E i, j \in DOMAIN ret.value :
          /\ i /= j
          /\ ret.value[i].id = ret.value[j].id
          /\ ret.value[i].data_type = "rne_law"
          /\ ret.value[j].source_file = "external_data.json"

(***************************************************************************)
(* Concurrent readers.                                                     *)
(***************************************************************************)
\* the result of the search of thread r when it runs alone on the
\* retrievers as they are
AloneResult(r) ==
    ReaderResult(ReaderSeen(searcher[r], index, documents, bm25_fr, bm25_ar,
                            documents_fr, documents_ar), hybrid)

\* C24: no step of a search on the BM25Retriever, the FAISSRetriever or the
\* HybridRetriever changes a field of a retriever, and under every
\* interleaving of the searches each one returns what it returns alone.
C24_ConcurrentReaders ==
    /\ [][UNCHANGED <<hybridVars, bm25Vars, faissVars>>]_vars
    /\ [](\A r \in Readers :
            searcher[r].pc = "done" => searcher[r].result = AloneResult(r))

\* a fused result with documents, returned by a search during which the
\* other thread was searching too
C24_Witness ==
    \E r \in Readers :
        /\ searcher[r].pc = "done"
        /\ searcher[r].op = "HybridRetriever.search"
        /\ searcher[r].overlapped
        /\ searcher[r].result.value /= <<>>
        /\ \E o \in Readers \ {r} :
              searcher[o].pc \notin {"idle", "called"} /\ searcher[o].overlapped

====
